---- MODULE Spec2Model ----
(***************************************************************************)
(* Batch execution engine of the Blueshift batch-delete tool:              *)
(*   - RateLimiter, Logger and BatchProcessor of batch-processor.js,       *)
(*   - the job handling of server.js (start-batch, cancel, parse-csv),     *)
(*   - the remote call deleteCustomer of delete-customer.js as an          *)
(*     environment step that returns success or an error.                  *)
(* Delays are JavaScript numbers; they are modelled as exact rationals     *)
(* <<numerator, denominator>> so that a multiplier such as 1.5 is kept.    *)
(***************************************************************************)
EXTENDS Integers, Sequences, FiniteSets, TLC

VARIABLES
    rl,           \* a RateLimiter instance used on its own (SpecRL)
    calls,        \* number of onSuccess/onRateLimit calls made on rl
    processors,   \* the BatchProcessor instances created so far, by creation order
    currentJob,   \* server.js: the process-wide job state
    uploads,      \* files present in the uploads directory: file id -> number of rows
    nextFile,     \* next unique upload file name
    timers,       \* pending setTimeout cleanups of the complete handler
    env,          \* process.env: BLUESHIFT_USER_API_KEY and BLUESHIFT_REGION
    CONFIG,       \* delete-customer.js: the configuration read when the module loads
    lg,           \* a Logger used on its own (SpecCsv), with what its last call returned
    items,        \* the items whose results drove rl (SpecItems): the last result, and
                  \* how many of the most recent items in a row ended in Success
    now,          \* the clock new Date() reads, in milliseconds (SpecLoggers)
    loggers,      \* the Logger instances constructed on their own, by construction order
    files,        \* the files under ./logs they wrote: path -> text
    cli           \* batch-delete.js: the locals of batchDelete and its deleteWithRetry

vars == <<rl, calls, processors, currentJob, uploads, nextFile, timers, env, CONFIG, lg, items,
          now, loggers, files, cli>>

(***************************************************************************)
(* Bounds of the model.                                                    *)
(***************************************************************************)
MaxCalls == 13      \* calls made on a stand-alone RateLimiter
MaxRecords == 2     \* rows of an input table
MaxRuns == 2        \* BatchProcessor instances created by the server
MaxFiles == 2       \* files uploaded through /api/parse-csv
MaxAttemptsCfg == 3 \* largest retry.maxAttempts of a library configuration
MaxFaultAt == 1     \* file writes of one step that succeed before one throws
MaxCancels == 1     \* cancel() calls a library caller makes on one processor
MaxClients == 2     \* connections open on /api/progress at a time
MaxObservedRuns == 1 \* jobs started while connections are open (SpecSSE)
MaxFailures == 2    \* failed records held by a stand-alone Logger
MaxValueLen == 1    \* characters of an identifier or error message given to it
MaxStarts == 2      \* start() calls a library caller makes on one processor (SpecReuse)
MaxRepeats == 2     \* cancel() calls made while one item is in flight (SpecCancel)
MaxLoggers == 2     \* Logger instances constructed on their own
MaxTicks == 3       \* steps of the clock
TickMs == 500       \* milliseconds in one step of the clock
MaxLines == 2       \* log() calls per log file

(***************************************************************************)
(* Exact arithmetic on JavaScript numbers: <<n, d>> with d >= 0; <<1, 0>>  *)
(* is Infinity (the result of dividing a positive number by zero).         *)
(***************************************************************************)
RECURSIVE GCD(_, _)
GCD(a, b) == IF b = 0 THEN a ELSE GCD(b, a % b)

Norm(n, d) ==
    IF d = 0 THEN <<1, 0>>
    ELSE IF n = 0 THEN <<0, 1>>
    ELSE LET g == GCD(n, d) IN <<n \div g, d \div g>>

Num(n) == <<n, 1>>
RMul(a, b) == Norm(a[1] * b[1], a[2] * b[2])
RDiv(a, b) == Norm(a[1] * b[2], a[2] * b[1])
RLess(a, b) == a[1] * b[2] < b[1] * a[2]
RLeq(a, b) == a[1] * b[2] <= b[1] * a[2]
RMin(a, b) == IF RLess(b, a) THEN b ELSE a
RMax(a, b) == IF RLess(a, b) THEN b ELSE a

RECURSIVE RPow(_, _)
RPow(b, e) == IF e = 0 THEN Num(1) ELSE RMul(b, RPow(b, e - 1))

(***************************************************************************)
(* RateLimiter                                                             *)
(***************************************************************************)
SuccessThreshold == 10

RateLimiter(config) ==
    [currentDelay |-> config.baseDelayMs,
     baseDelay |-> config.baseDelayMs,
     maxDelay |-> config.maxDelayMs,
     backoffMultiplier |-> config.backoffMultiplier,
     consecutiveSuccesses |-> 0]

onSuccess(r) ==
    LET n == r.consecutiveSuccesses + 1 IN
    IF n >= SuccessThreshold /\ RLess(r.baseDelay, r.currentDelay)
    THEN [r EXCEPT !.currentDelay = RMax(r.baseDelay, RDiv(r.currentDelay, r.backoffMultiplier)),
                   !.consecutiveSuccesses = 0]
    ELSE [r EXCEPT !.consecutiveSuccesses = n]

OnRateLimitNoCap(r) ==
    [r EXCEPT !.consecutiveSuccesses = 0,
              !.currentDelay = RMul(r.currentDelay, r.backoffMultiplier)]

onRateLimit(r) ==
    [r EXCEPT !.consecutiveSuccesses = 0,
              !.currentDelay = RMin(r.maxDelay, RMul(r.currentDelay, r.backoffMultiplier))]


(***************************************************************************)
(* Values shared by the server and the processor.                          *)
(***************************************************************************)
Null == 0                       \* null / undefined / unset; keys and file ids are positive
DefaultStatus == 500
RateLimitStatus == 429
ServerErrorFloor == 500
\* Errors deleteCustomer can throw: an HTTP status, or no status (0) for a
\* validation or network error that carries none.
ErrorStatuses == {0, 404, 429, 500}
MessageOf(s) ==
    CASE s = 0 -> "fetch failed"
      [] s = 404 -> "API Error: 404"
      [] s = 429 -> "API Error: 429"
      [] OTHER -> "API Error: 5xx"
RemoteError(s) == [status |-> s, message |-> MessageOf(s)]
RemoteErrors == {RemoteError(s) : s \in ErrorStatuses}
Ok == [status |-> 0, message |-> "ok"]

\* deleteCustomer(options): the two checks made before the request (lines
\* 184-194) throw an Error without status; otherwise the request is made and
\* answer (Ok, an HTTP error or a network error) is what comes back.
MissingKeyError == [status |-> 0, message |-> "Missing User API key"]
MissingIdentifierError == [status |-> 0, message |-> "At least one customer identifier is required"]
\* getBaseUrl, lines 164-168.
getBaseUrl(region) ==
    IF region = "eu" THEN "https://api.eu.getblueshift.com" ELSE "https://api.getblueshift.com"

\* The request deleteCustomer sends, if it sends one (lines 203-231): the
\* key of the Authorization header and the host, both taken from CONFIG.
request(config, options) ==
    IF config.userApiKey = Null \/ options.identifier = Null THEN {}
    ELSE {[authorization |-> config.userApiKey, baseUrl |-> getBaseUrl(config.region)]}

deleteCustomer(config, options, answer) ==
    IF config.userApiKey = Null THEN MissingKeyError
    ELSE IF options.identifier = Null THEN MissingIdentifierError
    ELSE answer

ServerRateLimit == [baseDelayMs |-> Num(100), maxDelayMs |-> Num(5000), backoffMultiplier |-> <<3, 2>>]
ServerRetry == [maxAttempts |-> 3, initialDelayMs |-> Num(1000), backoffMultiplier |-> Num(2)]

Remove(f, x) == [y \in (DOMAIN f) \ {x} |-> f[y]]

(***************************************************************************)
(* Logger                                                                  *)
(***************************************************************************)
\* log and csv are the contents of the two files; <<>> is a file not written.
Logger == [log |-> <<>>, failedRecords |-> <<>>, csv |-> <<>>]

\* Text is a sequence of pieces, each a character or a run of characters
\* that holds none of the three below.
Quote == "\""
Comma == ","
NewLine == "\n"
ColumnName == <<"email">>

RECURSIVE Join(_, _)
Join(texts, sep) ==
    IF Len(texts) = 0 THEN <<>>
    ELSE IF Len(texts) = 1 THEN texts[1]
    ELSE texts[1] \o sep \o Join(Tail(texts), sep)

\* `"${r.identifier}","${r.error}",${r.status}` for a record of texts.
CsvRow(r) ==
    <<Quote>> \o r.identifier \o <<Quote, Comma, Quote>> \o r.error \o <<Quote, Comma>>
        \o r.status

\* csvHeader + csvRows of saveFailedRecords: lines 285-288.
CsvText(columnName, rows) ==
    columnName \o <<Comma, "error", Comma, "status", NewLine>>
        \o Join([k \in 1..Len(rows) |-> CsvRow(rows[k])], <<NewLine>>)

\* What the template literal makes of the values a processor records: the
\* identifier of row k, an error message and a numeric status.
RowText(r) ==
    [identifier |-> IF r.identifier = Null THEN <<>> ELSE <<ToString(r.identifier)>>,
     error |-> <<r.error>>,
     status |-> <<ToString(r.status)>>]

\* A step of the program is atomic; w is the state while the step runs.
\* w.budget is the number of file writes of this step that succeed before
\* writeFileSync throws.
Thrown(w, p) == w.processors[p].pc = "rejected"

log(w, p, message) ==
    IF Thrown(w, p) THEN w
    ELSE IF w.budget = 0 THEN [w EXCEPT !.processors[p].pc = "rejected"]
    ELSE [w EXCEPT !.processors[p].logger.log = Append(@, message),
                   !.budget = @ - 1]

addFailedRecord(w, p, identifier, error, status) ==
    [w EXCEPT !.processors[p].logger.failedRecords =
                  Append(@, [identifier |-> identifier, error |-> error, status |-> status])]

hasFailedRecords(lgr) == Len(lgr.failedRecords) > 0

\* Sets processors[p].failedRecordsFile to the returned path (1) or null.
saveFailedRecords(w, p) ==
    LET lgr == w.processors[p].logger IN
    IF Thrown(w, p) THEN w
    ELSE IF Len(lgr.failedRecords) = 0
    THEN [w EXCEPT !.processors[p].failedRecordsFile = Null]
    ELSE IF w.budget = 0 THEN [w EXCEPT !.processors[p].pc = "rejected"]
    ELSE [w EXCEPT !.processors[p].logger.csv =
                       CsvText(ColumnName,
                               [k \in 1..Len(lgr.failedRecords) |-> RowText(lgr.failedRecords[k])]),
                   !.processors[p].failedRecordsFile = 1,
                   !.budget = @ - 1]

(***************************************************************************)
(* server.js: the listeners start-batch attaches to a processor            *)
(***************************************************************************)
\* A connection of /api/progress: the messages written to it so far, and
\* whether a write to it throws (the response stream has been destroyed).
Client(status) ==
    [received |-> <<[event |-> "connected", data |-> [status |-> status]]>>,
     broken |-> FALSE]

broadcastSSEStopsAtFailure(w, event, data) ==
    LET clients == w.currentJob.sseClients
        message == [event |-> event, data |-> data]
    IN  [w EXCEPT !.currentJob.sseClients =
            [c \in DOMAIN clients |->
                IF \E b \in 1..c : clients[b].broken THEN clients[c]
                ELSE [clients[c] EXCEPT !.received = Append(@, message)]]]

\* broadcastSSE: one message to every client of the list, in list order; a
\* write that throws is caught and the next client is served.
broadcastSSE(w, event, data) ==
    LET clients == w.currentJob.sseClients
        message == [event |-> event, data |-> data]
    IN  [w EXCEPT !.currentJob.sseClients =
            [c \in DOMAIN clients |->
                IF clients[c].broken THEN clients[c]
                ELSE [clients[c] EXCEPT !.received = Append(@, message)]]]

\* The payload of a processor event (emitter.emit(type, payload)).
Payload(ev) == [f \in (DOMAIN ev) \ {"type"} |-> ev[f]]

Listener(w, ev) ==
    LET w0 == broadcastSSE(w, ev.type, Payload(ev)) IN
    CASE ev.type = "complete" ->
            [w0 EXCEPT !.currentJob.status = "completed", !.timers = @ + 1]
      [] ev.type = "cancelled" ->
            LET f == w0.currentJob.filePath IN
            IF f # Null /\ f \in DOMAIN w0.uploads
            THEN [w0 EXCEPT !.currentJob.status = "cancelled",
                            !.currentJob.filePath = Null,
                            !.uploads = Remove(@, f)]
            ELSE [w0 EXCEPT !.currentJob.status = "cancelled"]
      [] OTHER -> w0

WriteError == "EIO: i/o error, write"    \* message of the error writeFileSync throws

CatchWithoutReport(w, p) == w

\* processor.start().catch(...)
Catch(w, p) ==
    IF Thrown(w, p) /\ w.processors[p].listeners
    THEN [broadcastSSE(w, "error", [message |-> WriteError])
             EXCEPT !.currentJob.status = "error"]
    ELSE w

(***************************************************************************)
(* BatchProcessor                                                          *)
(***************************************************************************)
\* The constructor, lines 313-322: config.rateLimit || {...} and
\* config.retry || {...}; a configuration may omit either.
DefaultRateLimit == [baseDelayMs |-> Num(100), maxDelayMs |-> Num(5000), backoffMultiplier |-> <<3, 2>>]
DefaultRetry == [maxAttempts |-> 3, initialDelayMs |-> Num(1000), backoffMultiplier |-> Num(2)]
rateLimitOrDefault(config) ==
    IF "rateLimit" \in DOMAIN config THEN config.rateLimit ELSE DefaultRateLimit
retryOrDefault(config) ==
    IF "retry" \in DOMAIN config THEN config.retry ELSE DefaultRetry

BatchProcessor(config) ==
    [records |-> config.records,
     apiKey |-> config.apiKey,
     region |-> config.region,
     rateLimit |-> rateLimitOrDefault(config),
     retry |-> retryOrDefault(config),
     cancelled |-> FALSE,
     rateLimiter |-> RateLimiter(rateLimitOrDefault(config)),
     logger |-> Logger,
     listeners |-> config.listeners,
     \* position and locals of start() and deleteWithRetry()
     pc |-> "new",
     i |-> 0,
     successCount |-> 0,
     failureCount |-> 0,
     failedRecordsFile |-> Null,
     attempt |-> 0,
     originalKey |-> Null,
     \* what the run has done so far: the events emitted, the items for which
     \* deleteCustomer was called and, for the current item, the number of
     \* calls, the errors they threw and the retry sleeps; the calls made on
     \* the rate limiter, each with the item it was made for
     events |-> <<>>,
     limiterCalls |-> <<>>,
     starts |-> 0,           \* start() calls made on the instance
     waits |-> <<>>,         \* rateLimiter.wait() calls: the item before, the delay
     cancelCalls |-> 0,
     attempted |-> {},
     outstanding |-> 0,      \* deleteCustomer calls awaiting their answer
     requests |-> {},        \* the requests sent for the run: key and host of each
     remoteCalls |-> 0,
     runCalls |-> 0,         \* deleteCustomer calls made since start() was called
     retrySleeps |-> <<>>,
     sleeping |-> Num(0),
     errors |-> <<>>,
     result |-> [success |-> TRUE, error |-> "", status |-> 0, attempt |-> 0]]

emit(w, p, ev) ==
    LET w1 == [w EXCEPT !.processors[p].events = Append(@, ev)] IN
    IF w1.processors[p].listeners THEN Listener(w1, ev) ELSE w1

\* An assignment to a property of process.env stores a string: null becomes
\* the string "null", which is not an unset variable.
NullString == 0 - 1
EnvString(v) == IF v = Null THEN NullString ELSE v

deleteWithRetryAbortOnCancel(w, p, attempt) ==
    LET pr == w.processors[p] IN
    IF pr.cancelled /\ attempt > 1
    THEN [w EXCEPT !.processors[p].pc = "done"]
    ELSE
    [w EXCEPT !.processors[p].originalKey = w.env.BLUESHIFT_USER_API_KEY,
              !.env = [BLUESHIFT_USER_API_KEY |-> pr.apiKey, BLUESHIFT_REGION |-> pr.region],
              !.processors[p].attempt = attempt,
              !.processors[p].pc = "call",
              !.processors[p].outstanding = @ + 1,
              !.processors[p].remoteCalls = IF attempt = 1 THEN 1 ELSE @ + 1,
              !.processors[p].runCalls = @ + 1,
              !.processors[p].retrySleeps = IF attempt = 1 THEN <<>> ELSE @,
              !.processors[p].errors = IF attempt = 1 THEN <<>> ELSE @,
              !.processors[p].attempted = @ \cup {pr.i + 1}]

\* deleteWithRetry from its entry to the await of deleteCustomer.
deleteWithRetry(w, p, attempt) ==
    LET pr == w.processors[p] IN
    [w EXCEPT !.processors[p].originalKey = w.env.BLUESHIFT_USER_API_KEY,
              !.env = [BLUESHIFT_USER_API_KEY |-> EnvString(pr.apiKey),
                       BLUESHIFT_REGION |-> pr.region],
              !.processors[p].attempt = attempt,
              !.processors[p].pc = "call",
              !.processors[p].outstanding = @ + 1,
              !.processors[p].remoteCalls = IF attempt = 1 THEN 1 ELSE @ + 1,
              !.processors[p].runCalls = @ + 1,
              !.processors[p].retrySleeps = IF attempt = 1 THEN <<>> ELSE @,
              !.processors[p].errors = IF attempt = 1 THEN <<>> ELSE @,
              !.processors[p].attempted = @ \cup {pr.i + 1}]

\* The finally block of a deleteWithRetry frame whose originalKey is k.
Finally(w, k) == [w EXCEPT !.env.BLUESHIFT_USER_API_KEY = k]

errorStatusAsThrown(error) == error.status

\* deleteWithRetry, line 345: const status = error.status || 500.
errorStatus(error) == IF error.status # 0 THEN error.status ELSE DefaultStatus

ShouldRetryOffByOne(attempt, maxAttempts, status) ==
    attempt <= maxAttempts /\ (status = RateLimitStatus \/ status >= ServerErrorFloor)

ShouldRetryAnyError(attempt, maxAttempts, status) ==
    attempt < maxAttempts /\ status >= 400

ShouldRetry(attempt, maxAttempts, status) ==
    attempt < maxAttempts /\ (status = RateLimitStatus \/ status >= ServerErrorFloor)

RetryDelayFromAttempt(retry, attempt) ==
    RMul(retry.initialDelayMs, RPow(retry.backoffMultiplier, attempt))

RetryDelay(retry, attempt) ==
    RMul(retry.initialDelayMs, RPow(retry.backoffMultiplier, attempt - 1))

CompleteEventDerivedSuccess(pr) ==
    [type |-> "complete",
     successCount |-> Len(pr.records) - pr.failureCount,
     failureCount |-> pr.failureCount,
     totalProcessed |-> Len(pr.records),
     failedRecordsFile |-> pr.failedRecordsFile,
     hasFailedRecords |-> hasFailedRecords(pr.logger)]

CompleteEvent(pr) ==
    [type |-> "complete",
     successCount |-> pr.successCount,
     failureCount |-> pr.failureCount,
     totalProcessed |-> Len(pr.records),
     failedRecordsFile |-> pr.failedRecordsFile,
     hasFailedRecords |-> hasFailedRecords(pr.logger)]

finishEmitsBeforeFlush(w, p) ==
    LET n == Len(w.processors[p].records)
        w0 == emit(w, p, CompleteEvent(w.processors[p]))
        w1 == saveFailedRecords(w0, p)
        w2 == log(w1, p, [tag |-> "completed", n |-> 0])
        w3 == log(w2, p, [tag |-> "Total Processed", n |-> n])
        w4 == log(w3, p, [tag |-> "Successful", n |-> w.processors[p].successCount])
        w5 == log(w4, p, [tag |-> "Failed", n |-> w.processors[p].failureCount])
        w6 == log(w5, p, [tag |-> "Duration", n |-> 0])
    IN  IF Thrown(w6, p) THEN w6
        ELSE [w6 EXCEPT !.processors[p].apiKey = Null,
                        !.processors[p].pc = "done"]

\* start(), lines 427-449: after the loop.
finish(w, p) ==
    LET n == Len(w.processors[p].records)
        w1 == saveFailedRecords(w, p)
        w2 == log(w1, p, [tag |-> "completed", n |-> 0])
        w3 == log(w2, p, [tag |-> "Total Processed", n |-> n])
        w4 == log(w3, p, [tag |-> "Successful", n |-> w.processors[p].successCount])
        w5 == log(w4, p, [tag |-> "Failed", n |-> w.processors[p].failureCount])
        w6 == log(w5, p, [tag |-> "Duration", n |-> 0])
    IN  IF Thrown(w6, p) THEN w6
        ELSE [emit(w6, p, CompleteEvent(w6.processors[p]))
                 EXCEPT !.processors[p].apiKey = Null,
                        !.processors[p].pc = "done"]

loopNoCancelCheck(w, p) ==
    LET pr == w.processors[p]
        n == Len(pr.records)
    IN  IF Thrown(w, p) THEN w
        ELSE IF pr.i < n
        THEN deleteWithRetry(
                 emit(w, p, [type |-> "progress", current |-> pr.i + 1, total |-> n]),
                 p, 1)
        ELSE finish(w, p)

loopFromLastRow(w, p) ==
    LET pr == w.processors[p]
        n == Len(pr.records)
    IN  IF Thrown(w, p) THEN w
        ELSE IF pr.i < n
        THEN IF pr.cancelled
             THEN LET w1 == log(w, p, [tag |-> "cancelled by user", n |-> 0]) IN
                  IF Thrown(w1, p) THEN w1
                  ELSE finish(emit(w1, p, [type |-> "cancelled"]), p)
             ELSE deleteWithRetry(
                      emit(w, p, [type |-> "progress", current |-> n - pr.i, total |-> n]),
                      p, 1)
        ELSE finish(w, p)

\* start(), lines 388-403: the head of the loop at index i, up to the await.
loop(w, p) ==
    LET pr == w.processors[p]
        n == Len(pr.records)
    IN  IF Thrown(w, p) THEN w
        ELSE IF pr.i < n
        THEN IF pr.cancelled
             THEN LET w1 == log(w, p, [tag |-> "cancelled by user", n |-> 0]) IN
                  IF Thrown(w1, p) THEN w1
                  ELSE finish(emit(w1, p, [type |-> "cancelled"]), p)
             ELSE deleteWithRetry(
                      emit(w, p, [type |-> "progress", current |-> pr.i + 1, total |-> n]),
                      p, 1)
        ELSE finish(w, p)

afterItemStopOnFailure(w, p) ==
    LET pr == w.processors[p] IN
    IF ~pr.result.success THEN finish(w, p)
    ELSE IF pr.i < Len(pr.records) - 1
    THEN [w EXCEPT !.processors[p].pc = "rateWait",
                   !.processors[p].sleeping = pr.rateLimiter.currentDelay,
                   !.processors[p].waits =
                       Append(@, [after |-> pr.i + 1, delay |-> pr.rateLimiter.currentDelay])]
    ELSE loop([w EXCEPT !.processors[p].i = @ + 1], p)

afterItemWaitsAlways(w, p) ==
    LET pr == w.processors[p] IN
    IF pr.i < Len(pr.records)
    THEN [w EXCEPT !.processors[p].pc = "rateWait",
                   !.processors[p].sleeping = pr.rateLimiter.currentDelay,
                   !.processors[p].waits =
                       Append(@, [after |-> pr.i + 1, delay |-> pr.rateLimiter.currentDelay])]
    ELSE loop([w EXCEPT !.processors[p].i = @ + 1], p)

\* start(), lines 422-425: the wait after an item, or the next loop test.
afterItem(w, p) ==
    LET pr == w.processors[p] IN
    IF pr.i < Len(pr.records) - 1
    THEN [w EXCEPT !.processors[p].pc = "rateWait",
                   !.processors[p].sleeping = pr.rateLimiter.currentDelay,
                   !.processors[p].waits =
                       Append(@, [after |-> pr.i + 1, delay |-> pr.rateLimiter.currentDelay])]
    ELSE loop([w EXCEPT !.processors[p].i = @ + 1], p)

\* start(), lines 405-420: the call the loop makes on its rate limiter for a
\* result of deleteWithRetry.
rateLimiterAfter(r, result) ==
    IF result.success THEN onSuccess(r)
    ELSE IF result.status = RateLimitStatus THEN onRateLimit(r)
    ELSE r

outcomeRateLimitOnAny429(w, p, result) ==
    LET pr == w.processors[p]
        identifier == pr.records[pr.i + 1]
        current == pr.i + 1
        total == Len(pr.records)
        old == pr.rateLimiter
        new == onRateLimit(old)
        seen429 == \E k \in 1..Len(pr.errors) : pr.errors[k].status = RateLimitStatus
    IN  IF result.success
        THEN LET a == [w EXCEPT !.processors[p].successCount = @ + 1]
                 b == log(a, p, [tag |-> "SUCCESS", n |-> identifier])
                 c == emit(b, p, [type |-> "success", identifier |-> identifier,
                                  current |-> current, total |-> total])
             IN  IF Thrown(b, p) THEN b
                 ELSE IF seen429
                 THEN afterItem(
                        emit([c EXCEPT !.processors[p].rateLimiter = new,
                                       !.processors[p].limiterCalls =
                                           Append(@, [item |-> current, call |-> "onRateLimit"])],
                             p, [type |-> "rateLimit", oldDelay |-> old.currentDelay,
                                 newDelay |-> new.currentDelay]), p)
                 ELSE afterItem(
                        [c EXCEPT !.processors[p].rateLimiter = onSuccess(@),
                                  !.processors[p].limiterCalls =
                                      Append(@, [item |-> current, call |-> "onSuccess"])], p)
        ELSE LET a == [w EXCEPT !.processors[p].failureCount = @ + 1]
                 b == log(a, p, [tag |-> "FAILED", n |-> identifier,
                                 status |-> result.status, error |-> result.error])
             IN  IF Thrown(b, p) THEN b
                 ELSE LET c == addFailedRecord(b, p, identifier, result.error, result.status)
                          d == emit(c, p, [type |-> "failure", identifier |-> identifier,
                                           error |-> result.error, status |-> result.status,
                                           current |-> current, total |-> total])
                      IN  IF result.status = RateLimitStatus
                          THEN afterItem(
                                 emit([d EXCEPT !.processors[p].rateLimiter = new,
                                                !.processors[p].limiterCalls =
                                                    Append(@, [item |-> current,
                                                               call |-> "onRateLimit"])], p,
                                      [type |-> "rateLimit", oldDelay |-> old.currentDelay,
                                       newDelay |-> new.currentDelay]), p)
                          ELSE afterItem(d, p)

\* start(), lines 405-420: deleteWithRetry has returned result.
outcome(w, p, result) ==
    LET pr == w.processors[p]
        identifier == pr.records[pr.i + 1]
        current == pr.i + 1
        total == Len(pr.records)
    IN  IF result.success
        THEN LET a == [w EXCEPT !.processors[p].successCount = @ + 1]
                 b == log(a, p, [tag |-> "SUCCESS", n |-> identifier])
             IN  IF Thrown(b, p) THEN b
                 ELSE afterItem(
                        [emit(b, p, [type |-> "success", identifier |-> identifier,
                                     current |-> current, total |-> total])
                            EXCEPT !.processors[p].rateLimiter = rateLimiterAfter(@, result),
                                   !.processors[p].limiterCalls =
                                       Append(@, [item |-> current, call |-> "onSuccess"])], p)
        ELSE LET a == [w EXCEPT !.processors[p].failureCount = @ + 1]
                 b == log(a, p, [tag |-> "FAILED", n |-> identifier,
                                 status |-> result.status, error |-> result.error])
             IN  IF Thrown(b, p) THEN b
                 ELSE LET c == addFailedRecord(b, p, identifier, result.error, result.status)
                          d == emit(c, p, [type |-> "failure", identifier |-> identifier,
                                           error |-> result.error, status |-> result.status,
                                           current |-> current, total |-> total])
                          old == d.processors[p].rateLimiter
                          new == rateLimiterAfter(old, result)
                      IN  IF result.status = RateLimitStatus
                          THEN afterItem(
                                 emit([d EXCEPT !.processors[p].rateLimiter = new,
                                                !.processors[p].limiterCalls =
                                                    Append(@, [item |-> current,
                                                               call |-> "onRateLimit"])], p,
                                      [type |-> "rateLimit", oldDelay |-> old.currentDelay,
                                       newDelay |-> new.currentDelay]), p)
                          ELSE afterItem(d, p)

\* start(), lines 376-386, then the first pass through the loop head.
start(w, p) ==
    LET pr == w.processors[p]
        w0 == [w EXCEPT !.processors[p].starts = @ + 1,
                        !.processors[p].runCalls = 0,
                        !.processors[p].i = 0,
                        !.processors[p].successCount = 0,
                        !.processors[p].failureCount = 0,
                        !.processors[p].failedRecordsFile = Null]
        w1 == log(w0, p, [tag |-> "started", n |-> 0])
        w2 == log(w1, p, [tag |-> "Total Records", n |-> Len(pr.records)])
        w3 == log(w2, p, [tag |-> "Identifier Type", n |-> 0])
        w4 == log(w3, p, [tag |-> "Column Name", n |-> 0])
    IN  IF Thrown(w4, p) THEN w4
        ELSE loop(emit(w4, p, [type |-> "start", total |-> Len(pr.records)]), p)

cancelToggles(w, p) ==
    emit([w EXCEPT !.processors[p].cancelled = ~@,
                   !.processors[p].cancelCalls = @ + 1], p, [type |-> "cancelled"])

\* cancel(), lines 371-374.
cancel(w, p) ==
    emit([w EXCEPT !.processors[p].cancelled = TRUE,
                   !.processors[p].cancelCalls = @ + 1], p, [type |-> "cancelled"])


(***************************************************************************)
(* Steps.  Every step takes the variables as the state w, runs one         *)
(* synchronous stretch of code on it and stores the result.                *)
(***************************************************************************)
WritesPerStep == 9      \* most file writes one step can make; 9 = none fails
\* The write of a step that throws: after 0..MaxFaultAt successful ones, or none.
Budgets == (0..MaxFaultAt) \cup {WritesPerStep}

\* response is the HTTP status the request of the step is answered with.
W(b) == [processors |-> processors, currentJob |-> currentJob, uploads |-> uploads,
         timers |-> timers, env |-> env, budget |-> b, response |-> 0]

\* A processor the server created is referenced by currentJob.processor and
\* by its own pending continuation; once it has settled and a later job has
\* replaced it in currentJob, nothing refers to it any more.
\* What is kept of it is how it settled: "collected" after done, "aborted"
\* after rejected.
Collected(pc) ==
    [BatchProcessor([records |-> <<>>, apiKey |-> Null, region |-> "us",
                     rateLimit |-> ServerRateLimit, retry |-> ServerRetry,
                     listeners |-> TRUE])
        EXCEPT !.pc = IF pc = "rejected" THEN "aborted" ELSE "collected"]

Collect(w) ==
    [w EXCEPT !.processors =
        [p \in 1..Len(w.processors) |->
            IF /\ w.processors[p].pc \in {"done", "rejected"}
               /\ w.processors[p].listeners
               /\ w.currentJob.processor # p
            THEN Collected(w.processors[p].pc)
            ELSE w.processors[p]]]

Commit(w) ==
    /\ processors' = Collect(w).processors
    /\ currentJob' = w.currentJob
    /\ uploads' = w.uploads
    /\ timers' = w.timers
    /\ env' = w.env

Procs == 1..Len(processors)

\* The awaited deleteCustomer settles with r (Ok or the error thrown), the
\* remote service having given answer:
\* lines 341-368, then 405-425.
afterCall(p, answer, b) ==
    LET pr == processors[p]
        r == deleteCustomer(CONFIG, [identifier |-> pr.records[pr.i + 1]], answer)
        sent == [W(b) EXCEPT !.processors[p].requests =
                     @ \cup request(CONFIG, [identifier |-> pr.records[pr.i + 1]])]
        status == errorStatus(r)
        ok == [success |-> TRUE, error |-> "", status |-> 0, attempt |-> 0]
        failure == [success |-> FALSE, error |-> r.message, status |-> status,
                    attempt |-> pr.attempt]
        delayMs == RetryDelay(pr.retry, pr.attempt)
    IN  IF r.message = "ok"
        THEN Catch(outcome(
                 Finally([sent EXCEPT !.processors[p].result = ok,
                                      !.processors[p].outstanding = @ - 1],
                         pr.originalKey),
                 p, ok), p)
        ELSE IF ShouldRetry(pr.attempt, pr.retry.maxAttempts, status)
        THEN [sent EXCEPT !.processors[p].pc = "retryWait",
                          !.processors[p].outstanding = @ - 1,
                          !.processors[p].errors = Append(@, r),
                          !.processors[p].sleeping = delayMs,
                          !.processors[p].retrySleeps = Append(@, delayMs)]
        ELSE Catch(outcome(
                 Finally([sent EXCEPT !.processors[p].result = failure,
                                      !.processors[p].outstanding = @ - 1,
                                      !.processors[p].errors = Append(@, r)],
                         pr.originalKey),
                 p, failure), p)

CallReturn(p, answer, b) ==
    /\ processors[p].pc = "call"
    /\ Commit(afterCall(p, answer, b))
    /\ UNCHANGED <<cli, now, loggers, files, lg, items, CONFIG, rl, calls, nextFile>>

\* The retry sleep ends: line 352, the recursive call, then the finally of
\* the calling frame.
RetryWaitDone(p) ==
    /\ processors[p].pc = "retryWait"
    /\ Commit(Finally(deleteWithRetry(W(0), p, processors[p].attempt + 1),
                      processors[p].originalKey))
    /\ UNCHANGED <<cli, now, loggers, files, lg, items, CONFIG, rl, calls, nextFile>>

\* rateLimiter.wait() ends: i++ and the next pass through the loop.
RateWaitDone(p, b) ==
    /\ processors[p].pc = "rateWait"
    /\ Commit(Catch(loop([W(b) EXCEPT !.processors[p].i = @ + 1], p), p))
    /\ UNCHANGED <<cli, now, loggers, files, lg, items, CONFIG, rl, calls, nextFile>>

\* A caller of the library invokes start() on a processor it constructed.
Start(p, b) ==
    /\ processors[p].pc = "new"
    /\ Commit(Catch(start(W(b), p), p))
    /\ UNCHANGED <<cli, now, loggers, files, lg, items, CONFIG, rl, calls, nextFile>>

\* A caller of the library invokes start() on a processor whose earlier
\* start() call has settled; start() makes no test of its own.
StartAgain(p, b) ==
    /\ processors[p].pc \in {"done", "rejected"}
    /\ processors[p].starts < MaxStarts
    /\ Commit(Catch(start([W(b) EXCEPT !.processors[p].pc = "new"], p), p))
    /\ UNCHANGED <<cli, now, loggers, files, lg, items, CONFIG, rl, calls, nextFile>>

\* A caller of the library invokes cancel().
Cancel(p) ==
    /\ processors[p].cancelCalls < MaxCancels
    /\ Commit(cancel(W(0), p))
    /\ UNCHANGED <<cli, now, loggers, files, lg, items, CONFIG, rl, calls, nextFile>>

\* cancel() called again on a cancelled processor whose item is in flight.
CancelAgain(p) ==
    /\ processors[p].cancelled
    /\ processors[p].pc \in {"call", "retryWait"}
    /\ processors[p].cancelCalls < MaxRepeats
    /\ Commit(cancel(W(0), p))
    /\ UNCHANGED <<cli, now, loggers, files, lg, items, CONFIG, rl, calls, nextFile>>

(***************************************************************************)
(* server.js                                                               *)
(***************************************************************************)
\* POST /api/parse-csv with a file of the given number of records.  A file
\* that does not parse or holds no record is removed again (lines 84-87 and
\* 111-114), which leaves the uploads directory as it was.
ParseCsv(rows, parses) ==
    /\ nextFile <= MaxFiles
    /\ IF parses /\ rows > 0
       THEN /\ uploads' = (nextFile :> rows) @@ uploads
            /\ currentJob' = [currentJob EXCEPT !.filePath = nextFile]
            /\ nextFile' = nextFile + 1
       ELSE UNCHANGED <<uploads, currentJob, nextFile>>
    /\ UNCHANGED <<cli, now, loggers, files, lg, items, CONFIG, rl, calls, processors, timers, env>>

RunningGuardOff(job) == FALSE

\* Line 123: the test that answers 409.
RunningGuard(job) == job.status = "running"

\* POST /api/start-batch with a body that names filePath and is otherwise
\* well-formed (key, region, identifier type and column).  throws: reading
\* or parsing the file, or constructing the processor, throws (lines 255-259).
startBatch(w, filePath, region, throws) ==
    IF RunningGuard(w.currentJob) THEN [w EXCEPT !.response = 409]
    ELSE IF filePath \notin DOMAIN w.uploads THEN [w EXCEPT !.response = 400]
    ELSE IF throws THEN [w EXCEPT !.currentJob.status = "error", !.response = 500]
    ELSE LET p == Len(w.processors) + 1
             processor == BatchProcessor(
                 [records |-> [k \in 1..w.uploads[filePath] |-> k],
                  apiKey |-> p,
                  region |-> region,
                  rateLimit |-> ServerRateLimit,
                  retry |-> ServerRetry,
                  listeners |-> TRUE])
         IN  [Catch(start(
                   [w EXCEPT !.processors = Append(@, processor),
                             !.currentJob.processor = p,
                             !.currentJob.jobFile = filePath,
                             !.currentJob.status = "running"], p), p)
                EXCEPT !.response = 200]

\* The request is handled; one that constructs a processor is made only
\* while fewer than MaxRuns exist.
StartBatch(filePath, region, throws, b) ==
    /\ (~throws /\ ~RunningGuard(currentJob) /\ filePath \in DOMAIN uploads)
          => Len(processors) < MaxRuns
    /\ Commit(startBatch(W(b), filePath, region, throws))
    /\ UNCHANGED <<cli, now, loggers, files, lg, items, CONFIG, rl, calls, nextFile>>

\* DELETE /api/cancel
CancelRequest ==
    /\ currentJob.status = "running"
    /\ currentJob.processor # Null
    /\ Commit(cancel(W(0), currentJob.processor))
    /\ UNCHANGED <<cli, now, loggers, files, lg, items, CONFIG, rl, calls, nextFile>>

\* The timeout set by the complete handler fires (lines 211-220).
CleanupTimer ==
    /\ timers > 0
    /\ timers' = timers - 1
    /\ IF currentJob.filePath # Null /\ currentJob.filePath \in DOMAIN uploads
       THEN /\ uploads' = Remove(uploads, currentJob.filePath)
            /\ currentJob' = [currentJob EXCEPT !.filePath = Null]
       ELSE UNCHANGED <<uploads, currentJob>>
    /\ UNCHANGED <<cli, now, loggers, files, lg, items, CONFIG, rl, calls, processors, nextFile, env>>

\* GET /api/progress: the response joins the client list and is sent the
\* connected message.
Subscribe ==
    /\ Len(currentJob.sseClients) < MaxClients
    /\ currentJob' = [currentJob EXCEPT !.sseClients = Append(@, Client(currentJob.status))]
    /\ UNCHANGED <<cli, now, loggers, files, lg, items, CONFIG, rl, calls, processors, uploads, nextFile, timers, env>>

\* The close event of the request of client c: it leaves the list.
Close(c) ==
    /\ c \in DOMAIN currentJob.sseClients
    /\ currentJob' = [currentJob EXCEPT !.sseClients =
            [k \in 1..(Len(@) - 1) |-> IF k < c THEN @[k] ELSE @[k + 1]]]
    /\ UNCHANGED <<cli, now, loggers, files, lg, items, CONFIG, rl, calls, processors, uploads, nextFile, timers, env>>

\* The stream of client c is destroyed while it is still in the list: from
\* now on a write to it throws.
Break(c) ==
    /\ c \in DOMAIN currentJob.sseClients
    /\ ~currentJob.sseClients[c].broken
    /\ currentJob' = [currentJob EXCEPT !.sseClients[c].broken = TRUE]
    /\ UNCHANGED <<cli, now, loggers, files, lg, items, CONFIG, rl, calls, processors, uploads, nextFile, timers, env>>

(***************************************************************************)
(* A RateLimiter driven directly.                                          *)
(***************************************************************************)
RateConfigs ==
    [baseDelayMs : {Num(0), Num(100)},
     maxDelayMs : {Num(100), Num(300)},
     backoffMultiplier : {Num(0), <<1, 2>>, Num(1), <<3, 2>>, Num(2)}]

OnSuccess ==
    /\ calls < MaxCalls
    /\ rl' = onSuccess(rl)
    /\ calls' = calls + 1
    /\ UNCHANGED <<cli, now, loggers, files, processors, currentJob, uploads, nextFile, timers, env, CONFIG, lg, items>>

OnRateLimit ==
    /\ calls < MaxCalls
    /\ rl' = onRateLimit(rl)
    /\ calls' = calls + 1
    /\ UNCHANGED <<cli, now, loggers, files, processors, currentJob, uploads, nextFile, timers, env, CONFIG, lg, items>>

(***************************************************************************)
(* Specifications                                                          *)
(***************************************************************************)
EnvKey == MaxRuns + 1       \* a key the process was started with

\* jobFile is not a field of the program: it keeps the filePath of the
\* request the current processor was started from.
IdleJob ==
    [processor |-> Null, status |-> "idle", filePath |-> Null, sseClients |-> <<>>,
     jobFile |-> Null]

ServerIdle ==
    /\ currentJob = IdleJob
    /\ uploads = <<>>
    /\ nextFile = 1
    /\ timers = 0

\* The server: requests, timers and the steps of the processors it started.
\* Its remote service answers Ok, 404 or 429, and a step's first file write
\* may throw.
ServerRemote == {Ok, RemoteError(404), RemoteError(429)}
ServerBudgets == {0, WritesPerStep}
ServerRegions == {"eu"}
(***************************************************************************)
(* batch-delete.js: the command-line engine                                *)
(***************************************************************************)
\* new RateLimiter(config), lines 140-146: the fields are read from
\* config.rateLimit.
CliRateLimiter(config) ==
    [currentDelay |-> config.rateLimit.baseDelayMs,
     baseDelay |-> config.rateLimit.baseDelayMs,
     maxDelay |-> config.rateLimit.maxDelayMs,
     backoffMultiplier |-> config.rateLimit.backoffMultiplier,
     consecutiveSuccesses |-> 0]

\* Lines 152-162.
CliOnSuccess(r) ==
    LET n == r.consecutiveSuccesses + 1 IN
    IF n >= 10 /\ RLess(r.baseDelay, r.currentDelay)
    THEN [r EXCEPT !.currentDelay = RMax(r.baseDelay, RDiv(r.currentDelay, r.backoffMultiplier)),
                   !.consecutiveSuccesses = 0]
    ELSE [r EXCEPT !.consecutiveSuccesses = n]

\* Lines 164-172.
CliOnRateLimit(r) ==
    [r EXCEPT !.consecutiveSuccesses = 0,
              !.currentDelay = RMin(r.maxDelay, RMul(r.currentDelay, r.backoffMultiplier))]

\* deleteWithRetry, line 115: error.status || 500.
CliErrorStatus(error) == IF error.status # 0 THEN error.status ELSE 500

\* Lines 118-120.
CliShouldRetry(attempt, maxAttempts, status) ==
    attempt < maxAttempts /\ (status = 429 \/ status >= 500)

\* Line 123.
CliRetryDelay(retry, attempt) ==
    RMul(retry.initialDelayMs, RPow(retry.backoffMultiplier, attempt - 1))

\* The locals of batchDelete for records and a config.json that passed
\* validateConfig and loadCSV, with what the run has done so far.
CliRun(records, config) ==
    [records |-> records,
     config |-> config,
     rateLimiter |-> <<>>,       \* not constructed yet
     pc |-> "new",
     i |-> 0,
     successCount |-> 0,
     failureCount |-> 0,
     failedRecords |-> <<>>,
     attempt |-> 0,
     runCalls |-> 0,
     requests |-> {},
     retrySleeps |-> <<>>,
     waits |-> <<>>,
     sleeping |-> Num(0)]

\* The command-line tool has not been run.
NoCli == [CliRun(<<>>, [deleteAll |-> FALSE]) EXCEPT !.pc = "none"]

\* deleteWithRetry (batch-delete.js) from its entry to the await of
\* deleteCustomer.
CliDeleteWithRetry(c, attempt) ==
    [c EXCEPT !.attempt = attempt,
              !.pc = "call",
              !.runCalls = @ + 1,
              !.retrySleeps = IF attempt = 1 THEN <<>> ELSE @]

\* Lines 304-312, the loop test and the call for item i, and lines 337-361
\* once the loop is over.
CliLoop(c) ==
    IF c.i < Len(c.records) THEN CliDeleteWithRetry(c, 1)
    ELSE [c EXCEPT !.pc = "done"]

\* Lines 331-334: the wait after an item that is not the last.
CliAfterItem(c) ==
    IF c.i < Len(c.records) - 1
    THEN [c EXCEPT !.pc = "rateWait",
                   !.sleeping = c.rateLimiter.currentDelay,
                   !.waits = Append(@, [after |-> c.i + 1, delay |-> c.rateLimiter.currentDelay])]
    ELSE CliLoop([c EXCEPT !.i = @ + 1])

\* Lines 314-329: deleteWithRetry has returned result.
CliOutcome(c, result) ==
    IF result.success
    THEN CliAfterItem([c EXCEPT !.successCount = @ + 1,
                                !.rateLimiter = CliOnSuccess(@)])
    ELSE CliAfterItem([c EXCEPT !.failureCount = @ + 1,
                                !.failedRecords = Append(@, [identifier |-> c.records[c.i + 1],
                                                             error |-> result.error,
                                                             status |-> result.status]),
                                !.rateLimiter = IF result.status = 429
                                                THEN CliOnRateLimit(@) ELSE @])

\* batchDelete from line 290 to its first await: new RateLimiter(config)
\* throws a TypeError when config.json has no rateLimit, and batchDelete
\* rejects before any call.
batchDelete(c) ==
    IF "rateLimit" \notin DOMAIN c.config THEN [c EXCEPT !.pc = "rejected"]
    ELSE CliLoop([c EXCEPT !.rateLimiter = CliRateLimiter(c.config)])

\* The awaited deleteCustomer settles, lines 111-135, then 314-334: the test
\* of line 118 reads retry.maxAttempts and throws a TypeError inside the
\* catch block when config.json has no retry.
CliAfterCall(c, config, answer) ==
    LET options == [identifier |-> c.records[c.i + 1]]
        r == deleteCustomer(config, options, answer)
        sent == [c EXCEPT !.requests = @ \cup request(config, options)]
        status == CliErrorStatus(r)
    IN  IF r.message = "ok"
        THEN CliOutcome(sent, [success |-> TRUE, error |-> "", status |-> 0, attempt |-> 0])
        ELSE IF "retry" \notin DOMAIN c.config THEN [sent EXCEPT !.pc = "rejected"]
        ELSE IF CliShouldRetry(c.attempt, c.config.retry.maxAttempts, status)
        THEN [sent EXCEPT !.pc = "retryWait",
                          !.sleeping = CliRetryDelay(c.config.retry, c.attempt),
                          !.retrySleeps = Append(@, CliRetryDelay(c.config.retry, c.attempt))]
        ELSE CliOutcome(sent, [success |-> FALSE, error |-> r.message, status |-> status,
                               attempt |-> c.attempt])

\* The module is loaded when the process starts: CONFIG holds the key the
\* environment had then (from .env), or none.
NoLogger == [logger |-> Logger, saved |-> FALSE, returned |-> "nothing"]

NoItems == [successes |-> 0, last |-> Null]
NoLoggers == now = 0 /\ loggers = <<>> /\ files = <<>>

Loaded ==
    /\ lg = NoLogger
    /\ items = NoItems
    /\ NoLoggers
    /\ env \in [BLUESHIFT_USER_API_KEY : {Null, EnvKey}, BLUESHIFT_REGION : {"us"}]
    /\ CONFIG = [userApiKey |-> env.BLUESHIFT_USER_API_KEY, region |-> env.BLUESHIFT_REGION]

Init ==
    /\ rl = RateLimiter(ServerRateLimit)
    /\ calls = 0
    /\ processors = <<>>
    /\ ServerIdle
    /\ Loaded
    /\ cli = NoCli

Next ==
    \/ \E rows \in 0..MaxRecords, parses \in BOOLEAN : ParseCsv(rows, parses)
    \/ \E f \in 1..MaxFiles, region \in ServerRegions, throws \in BOOLEAN, b \in ServerBudgets :
          StartBatch(f, region, throws, b)
    \/ CancelRequest
    \/ CleanupTimer
    \/ \E p \in Procs, r \in ServerRemote, b \in ServerBudgets : CallReturn(p, r, b)
    \/ \E p \in Procs : RetryWaitDone(p)
    \/ \E p \in Procs, b \in ServerBudgets : RateWaitDone(p, b)

Spec == Init /\ [][Next]_vars

\* The server with observers on /api/progress.
NextSSE ==
    \/ Subscribe
    \/ \E c \in 1..MaxClients : Close(c)
    \/ \E c \in 1..MaxClients : Break(c)
    \/ \E rows \in 1..MaxRecords : ParseCsv(rows, TRUE)
    \/ \E f \in 1..MaxFiles, b \in ServerBudgets :
          Len(processors) < MaxObservedRuns /\ StartBatch(f, "eu", FALSE, b)
    \/ CancelRequest
    \/ CleanupTimer
    \/ \E p \in Procs, r \in ServerRemote, b \in ServerBudgets : CallReturn(p, r, b)
    \/ \E p \in Procs : RetryWaitDone(p)
    \/ \E p \in Procs, b \in ServerBudgets : RateWaitDone(p, b)

SpecSSE == Init /\ [][NextSSE]_vars

\* One BatchProcessor used as a library, with any configuration.
RetryConfigs ==
    [maxAttempts : 1..MaxAttemptsCfg,
     initialDelayMs : {Num(0), Num(1000)},
     backoffMultiplier : {Num(1), <<3, 2>>, Num(2)}]

InitProc ==
    /\ rl = RateLimiter(ServerRateLimit)
    /\ calls = 0
    /\ ServerIdle
    /\ Loaded
    /\ cli = NoCli
    /\ \E n \in 0..MaxRecords, retry \in RetryConfigs :
          processors = <<BatchProcessor(
                            [records |-> [k \in 1..n |-> k],
                             apiKey |-> 1,
                             region |-> "us",
                             rateLimit |-> ServerRateLimit,
                             retry |-> retry,
                             listeners |-> FALSE])>>

NextProc ==
    \/ \E b \in Budgets : Start(1, b)
    \/ Cancel(1)
    \/ \E r \in {Ok} \cup RemoteErrors, b \in Budgets : CallReturn(1, r, b)
    \/ RetryWaitDone(1)
    \/ \E b \in Budgets : RateWaitDone(1, b)

SpecProc == InitProc /\ [][NextProc]_vars

\* The same under the scheduling of the event loop: an awaited remote call
\* that returns settles its promise, and a timer that was set fires.
FairProc ==
    /\ WF_vars(\E r \in {Ok} \cup RemoteErrors, b \in Budgets : CallReturn(1, r, b))
    /\ WF_vars(RetryWaitDone(1))
    /\ WF_vars(\E b \in Budgets : RateWaitDone(1, b))

\* The delays of the retry configuration do not decide which step follows
\* which; the number of attempts does.
InitFair ==
    /\ InitProc
    /\ processors[1].retry.initialDelayMs = Num(1000)
    /\ processors[1].retry.backoffMultiplier = Num(2)

SpecProcFair == InitFair /\ [][NextProc]_vars /\ FairProc

\* The two engines run side by side on the same records and configuration,
\* without cancellation and without file-system faults; every remote call
\* of either gets the same answer as the other's call of the same rank.
MaxEngineAttempts == 2   \* largest retry.maxAttempts given to the two engines
EngineRetryConfigs ==
    {retry \in RetryConfigs : retry.maxAttempts <= MaxEngineAttempts /\ retry.backoffMultiplier = Num(2)}
EngineConfigs ==
    LET base == [deleteAll |-> FALSE]
        rates == {base} \cup {[rateLimit |-> ServerRateLimit]}
        retries == {base} \cup {[retry |-> retry] : retry \in EngineRetryConfigs}
    IN  {base @@ a @@ b : a \in rates, b \in retries}

InitEngines ==
    /\ rl = RateLimiter(ServerRateLimit)
    /\ calls = 0
    /\ ServerIdle
    /\ Loaded
    /\ \E n \in 1..MaxRecords, config \in EngineConfigs :
          /\ processors = <<BatchProcessor(
                                config @@ [records |-> [k \in 1..n |-> k],
                                           apiKey |-> 1,
                                           region |-> "us",
                                           listeners |-> FALSE])>>
          /\ cli = CliRun([k \in 1..n |-> k], config)

Library == <<processors, currentJob, uploads, timers, env>>

EnginesStart ==
    /\ processors[1].pc = "new" \/ cli.pc = "new"
    /\ IF processors[1].pc = "new" THEN Commit(Catch(start(W(WritesPerStep), 1), 1))
       ELSE UNCHANGED Library
    /\ cli' = IF cli.pc = "new" THEN batchDelete(cli) ELSE cli
    /\ UNCHANGED <<now, loggers, files, lg, items, CONFIG, rl, calls, nextFile>>

EnginesCallReturn(answer) ==
    /\ processors[1].pc = "call" \/ cli.pc = "call"
    /\ IF processors[1].pc = "call" THEN Commit(afterCall(1, answer, WritesPerStep))
       ELSE UNCHANGED Library
    /\ cli' = IF cli.pc = "call" THEN CliAfterCall(cli, CONFIG, answer) ELSE cli
    /\ UNCHANGED <<now, loggers, files, lg, items, CONFIG, rl, calls, nextFile>>

EnginesRetryWaitDone ==
    /\ processors[1].pc = "retryWait" \/ cli.pc = "retryWait"
    /\ IF processors[1].pc = "retryWait"
       THEN Commit(Finally(deleteWithRetry(W(0), 1, processors[1].attempt + 1),
                           processors[1].originalKey))
       ELSE UNCHANGED Library
    /\ cli' = IF cli.pc = "retryWait" THEN CliDeleteWithRetry(cli, cli.attempt + 1) ELSE cli
    /\ UNCHANGED <<now, loggers, files, lg, items, CONFIG, rl, calls, nextFile>>

EnginesRateWaitDone ==
    /\ processors[1].pc = "rateWait" \/ cli.pc = "rateWait"
    /\ IF processors[1].pc = "rateWait"
       THEN Commit(Catch(loop([W(WritesPerStep) EXCEPT !.processors[1].i = @ + 1], 1), 1))
       ELSE UNCHANGED Library
    /\ cli' = IF cli.pc = "rateWait" THEN CliLoop([cli EXCEPT !.i = @ + 1]) ELSE cli
    /\ UNCHANGED <<now, loggers, files, lg, items, CONFIG, rl, calls, nextFile>>

NextEngines ==
    \/ EnginesStart
    \/ \E answer \in {Ok} \cup RemoteErrors : EnginesCallReturn(answer)
    \/ EnginesRetryWaitDone
    \/ EnginesRateWaitDone

SpecEngines == InitEngines /\ [][NextEngines]_vars

\* The same, with a caller that may call start() again.
NextReuse ==
    \/ \E b \in ServerBudgets : Start(1, b)
    \/ \E b \in ServerBudgets : StartAgain(1, b)
    \/ Cancel(1)
    \/ \E r \in ServerRemote, b \in ServerBudgets : CallReturn(1, r, b)
    \/ RetryWaitDone(1)
    \/ \E b \in ServerBudgets : RateWaitDone(1, b)

SpecReuse == InitProc /\ [][NextReuse]_vars

\* POST /api/start-batch, lines 129-163: what the request must satisfy for a
\* processor to be constructed.  records holds, per row, the value of the
\* selected column (Null for an empty value); the column is looked up in the
\* first row only, and no row's value is looked at.
Validation(apiKey, region, records) ==
    /\ apiKey # Null
    /\ region \in {"us", "eu"}
    /\ Len(records) > 0

\* Tables of 1..MaxRecords rows in which any row may have an empty value.
Tables ==
    UNION {{[k \in 1..n |-> IF k \in empty THEN Null ELSE k] : empty \in SUBSET (1..n)}
              : n \in 1..MaxRecords}

\* One BatchProcessor constructed from any request that passes Validation.
InitInput ==
    /\ rl = RateLimiter(ServerRateLimit)
    /\ calls = 0
    /\ ServerIdle
    /\ Loaded
    /\ cli = NoCli
    /\ \E records \in Tables, region \in {"us", "eu"} :
          /\ Validation(1, region, records)
          /\ processors = <<BatchProcessor(
                                [records |-> records,
                                 apiKey |-> 1,
                                 region |-> region,
                                 rateLimit |-> ServerRateLimit,
                                 retry |-> ServerRetry,
                                 listeners |-> FALSE])>>

SpecInput == InitInput /\ [][NextProc]_vars

\* One Logger holding any failed records, on which saveFailedRecords is
\* called.  The values are texts of up to MaxValueLen characters.
Chars == {"a", Comma, Quote, NewLine}
RECURSIVE TextsUpTo(_)
TextsUpTo(n) ==
    IF n = 0 THEN {<<>>}
    ELSE TextsUpTo(n - 1) \cup {Append(t, c) : t \in {u \in TextsUpTo(n - 1) : Len(u) = n - 1},
                                             c \in Chars}
FailedRecordTexts ==
    [identifier : TextsUpTo(MaxValueLen), error : TextsUpTo(MaxValueLen),
     status : {<<"404">>, <<"500">>}]
FailedRecordLists ==
    UNION {[1..f -> FailedRecordTexts] : f \in 0..MaxFailures}

\* logger.saveFailedRecords(columnName), lines 282-292; writes: whether
\* writeFileSync succeeds.
SaveFailedRecords(writes) ==
    /\ ~lg.saved
    /\ lg' = IF Len(lg.logger.failedRecords) = 0
             THEN [lg EXCEPT !.saved = TRUE, !.returned = "null"]
             ELSE IF ~writes THEN [lg EXCEPT !.saved = TRUE, !.returned = "thrown"]
             ELSE [lg EXCEPT !.saved = TRUE, !.returned = "failedRecordsFile",
                             !.logger.csv = CsvText(ColumnName, lg.logger.failedRecords)]
    /\ UNCHANGED <<cli, now, loggers, files, rl, calls, processors, currentJob, uploads, nextFile, timers, env, CONFIG, items>>

InitCsv ==
    /\ rl = RateLimiter(ServerRateLimit)
    /\ calls = 0
    /\ processors = <<>>
    /\ ServerIdle
    /\ env = [BLUESHIFT_USER_API_KEY |-> Null, BLUESHIFT_REGION |-> "us"]
    /\ CONFIG = [userApiKey |-> Null, region |-> "us"]
    /\ items = NoItems
    /\ NoLoggers
    /\ cli = NoCli
    /\ \E records \in FailedRecordLists :
          lg = [NoLogger EXCEPT !.logger.failedRecords = records]

NextCsv == \E writes \in BOOLEAN : SaveFailedRecords(writes)

SpecCsv == InitCsv /\ [][NextCsv]_vars

\* One RateLimiter with any configuration.
InitRL ==
    /\ rl \in {RateLimiter(c) : c \in RateConfigs}
    /\ calls = 0
    /\ processors = <<>>
    /\ ServerIdle
    /\ Loaded
    /\ cli = NoCli

NextRL == OnSuccess \/ OnRateLimit

SpecRL == InitRL /\ [][NextRL]_vars

\* One RateLimiter driven as the loop of start() drives it: by the results
\* of the items, one after the other.
ItemResults ==
    {[success |-> TRUE, error |-> "", status |-> 0, attempt |-> 0]}
        \cup {[success |-> FALSE, error |-> MessageOf(s), status |-> s, attempt |-> 1] :
                 s \in {404, RateLimitStatus, DefaultStatus}}

ItemDone(result) ==
    /\ calls < MaxCalls
    /\ rl' = rateLimiterAfter(rl, result)
    /\ calls' = calls + 1
    /\ items' = [successes |-> IF result.success THEN items.successes + 1 ELSE 0,
                 last |-> result]
    /\ UNCHANGED <<cli, now, loggers, files, processors, currentJob, uploads, nextFile, timers, env, CONFIG, lg>>

NextItems == \E result \in ItemResults : ItemDone(result)

SpecItems == InitRL /\ [][NextItems]_vars

\* One BatchProcessor constructed with any rate configuration, also one
\* whose baseDelayMs is above its maxDelayMs.
AnyOrderRateConfigs ==
    [baseDelayMs : {Num(200), Num(400)},
     maxDelayMs : {Num(100), Num(300)},
     backoffMultiplier : {Num(1), <<3, 2>>, Num(2)}]

InitRate ==
    /\ rl = RateLimiter(ServerRateLimit)
    /\ calls = 0
    /\ ServerIdle
    /\ Loaded
    /\ cli = NoCli
    /\ \E n \in 1..MaxRecords, rateLimit \in AnyOrderRateConfigs :
          processors = <<BatchProcessor(
                            [records |-> [k \in 1..n |-> k],
                             apiKey |-> 1,
                             region |-> "us",
                             rateLimit |-> rateLimit,
                             retry |-> ServerRetry,
                             listeners |-> FALSE])>>

SpecRate == InitRate /\ [][NextProc]_vars

\* A library caller that may repeat cancel() while an item is in flight.
NextCancel ==
    \/ \E b \in ServerBudgets : Start(1, b)
    \/ Cancel(1)
    \/ CancelAgain(1)
    \/ \E r \in {Ok} \cup RemoteErrors, b \in ServerBudgets : CallReturn(1, r, b)
    \/ RetryWaitDone(1)
    \/ \E b \in ServerBudgets : RateWaitDone(1, b)

SpecCancel == InitProc /\ [][NextCancel]_vars

\* Logger instances on their own, a clock, and the files under ./logs.
\* new Date().toISOString() as text: the date and time down to the second
\* (one piece, whatever it holds), ".", the milliseconds, "Z".
toISOString(ms) == <<ToString(ms \div 1000), ".", ToString(ms % 1000), "Z">>

\* Logger constructor, line 261: .replace(/[:.]/g, '-').slice(0, -5) drops
\* the five characters "-mmmZ", the last three pieces.
LoggerTimestamp(ms) ==
    LET iso == toISOString(ms)
        replaced == [k \in 1..Len(iso) |-> IF iso[k] = "." THEN "-" ELSE iso[k]]
    IN  SubSeq(replaced, 1, Len(replaced) - 3)

\* new Logger(), lines 259-264.
LoggerConstructor(ms) ==
    [timestamp |-> LoggerTimestamp(ms),
     logFile |-> <<"./logs/batch-log-">> \o LoggerTimestamp(ms) \o <<".txt">>,
     failedRecordsFile |-> <<"./logs/failed-records-">> \o LoggerTimestamp(ms) \o <<".csv">>,
     failedRecords |-> <<>>]

\* `[${timestamp}] ${message}\n`, lines 273-274.
logMessage(ms, message) == <<"[">> \o toISOString(ms) \o <<"] ">> \o message \o <<NewLine>>

TextAt(fs, path) == IF path \in DOMAIN fs THEN fs[path] ELSE <<>>
\* writeFileSync(path, text, { flag: 'a' }), line 275.
writeFileSyncAppend(fs, path, text) == (path :> (TextAt(fs, path) \o text)) @@ fs

Lines(text) == Cardinality({j \in 1..Len(text) : text[j] = NewLine})

\* The messages start() logs for an item: the identifier is any text.
LogMessages == {<<"SUCCESS: ">> \o identifier : identifier \in TextsUpTo(MaxValueLen)}

Tick ==
    /\ now < MaxTicks * TickMs
    /\ now' = now + TickMs
    /\ UNCHANGED <<cli, loggers, files, rl, calls, processors, currentJob, uploads, nextFile,
                   timers, env, CONFIG, lg, items>>

Construct ==
    /\ Len(loggers) < MaxLoggers
    /\ loggers' = Append(loggers, LoggerConstructor(now))
    /\ UNCHANGED <<cli, now, files, rl, calls, processors, currentJob, uploads, nextFile,
                   timers, env, CONFIG, lg, items>>

\* logger.log(message), lines 272-276, on the k-th Logger.
Log(k, message) ==
    /\ k \in 1..Len(loggers)
    /\ Lines(TextAt(files, loggers[k].logFile)) < MaxLines
    /\ files' = writeFileSyncAppend(files, loggers[k].logFile, logMessage(now, message))
    /\ UNCHANGED <<cli, now, loggers, rl, calls, processors, currentJob, uploads, nextFile,
                   timers, env, CONFIG, lg, items>>

NextLoggers ==
    \/ Tick
    \/ Construct
    \/ \E k \in 1..MaxLoggers, message \in LogMessages : Log(k, message)

SpecLoggers == Init /\ [][NextLoggers]_vars


(***************************************************************************)
(* Properties                                                              *)
(***************************************************************************)
Retryable(status) == status = 429 \/ status >= 500
ClientError(status) == status >= 400 /\ status < 500 /\ status # 429
EffectiveStatus(e) == IF e.status = 0 THEN 500 ELSE e.status
InRange(r) == RLeq(r.baseDelay, r.currentDelay) /\ RLeq(r.currentDelay, r.maxDelay)
Settled(pr) == pr.pc \in {"done", "rejected"}
InProgress(pr) == pr.pc \in {"call", "retryWait", "rateWait"}
\* deleteWithRetry has returned pr.result for the item at index pr.i and no
\* later call of it has begun.
Returned(pr) == pr.pc = "rateWait" \/ (Settled(pr) /\ pr.remoteCalls > 0)
TypesBefore(ev, j) == {ev[k].type : k \in 1..(j - 1)}
ProcessedBefore(ev, j) ==
    Cardinality({k \in 1..(j - 1) : ev[k].type \in {"success", "failure"}})
\* The first "cancelled" event of ev is at index c and follows the outcome of
\* an item: cancel() was called in the wait after that item.
CancelledAfterItem(ev, c) ==
    /\ c > 1
    /\ ev[c].type = "cancelled"
    /\ "cancelled" \notin TypesBefore(ev, c)
    /\ ev[c - 1].type \in {"success", "failure", "rateLimit"}

\* C1 as stated: with 0 <= baseDelayMs <= maxDelayMs and any non-negative
\* backoffMultiplier, the current delay stays within [baseDelayMs, maxDelayMs]
\* after any sequence of onSuccess() and onRateLimit() calls.
C1_DelayInRangeAnyMultiplier ==
    RLeq(rl.baseDelay, rl.maxDelay) => InRange(rl)

\* C1 amended: the same for every backoffMultiplier >= 1.
C1_DelayInRange ==
    (RLeq(rl.baseDelay, rl.maxDelay) /\ RLeq(Num(1), rl.backoffMultiplier)) => InRange(rl)

\* A limiter with a multiplier above 1 that was raised to the cap and then
\* lowered again by ten successes.
C1_Witness ==
    /\ RLess(Num(1), rl.backoffMultiplier)
    /\ RLess(rl.baseDelay, rl.currentDelay)
    /\ RLess(rl.currentDelay, rl.maxDelay)
    /\ rl.consecutiveSuccesses = 0
    /\ calls >= SuccessThreshold + 2

\* C2: when cancel() is called after item i has been processed and before item
\* i+1 begins, the complete event reports totalProcessed = i.
C2_CancelledTotalProcessed ==
    \A p \in Procs :
        LET ev == processors[p].events IN
        \A j \in 1..Len(ev), c \in 1..Len(ev) :
            (ev[j].type = "complete" /\ c < j /\ CancelledAfterItem(ev, c))
                => ev[j].totalProcessed = ProcessedBefore(ev, c)

\* C3: at every complete event successCount + failureCount = totalProcessed,
\* totalProcessed is at most the number of input records, and it equals that
\* number when the run was not cancelled.
C3_CountsAddUp ==
    \A p \in Procs :
        LET ev == processors[p].events IN
        \A j \in 1..Len(ev) :
            ev[j].type = "complete" =>
                /\ ev[j].successCount + ev[j].failureCount = ev[j].totalProcessed
                /\ ev[j].totalProcessed <= Len(processors[p].records)
                /\ ("cancelled" \notin TypesBefore(ev, j)
                        => ev[j].totalProcessed = Len(processors[p].records))

\* C4: at most one BatchProcessor run is in progress in the server process at
\* a time, and so at most one remote delete call is outstanding.
C4_SingleRun ==
    /\ Cardinality({p \in Procs : InProgress(processors[p])}) <= 1
    /\ Cardinality({p \in Procs : processors[p].pc = "call"}) <= 1

\* C5: once the job status is completed, cancelled or error it changes only
\* in a step that starts a new run.
C5_TerminalStatusFinal ==
    [][(currentJob.status \in {"completed", "cancelled", "error"}
            /\ currentJob'.status # currentJob.status)
          => Len(processors') > Len(processors)]_vars

\* C6: a processor whose run has reached a terminal state, by completing, by
\* being cancelled or by an exception, no longer holds the API key.
C6_KeyClearedWhenSettled ==
    \A p \in Procs : Settled(processors[p]) => processors[p].apiKey = Null

\* C7: in a run that is not cancelled and does not throw, deleteCustomer is
\* called at least once for every input item, whatever the earlier outcomes.
C7_EveryItemAttempted ==
    \A p \in Procs :
        (processors[p].pc = "done" /\ ~processors[p].cancelled)
            => processors[p].attempted = 1..Len(processors[p].records)

\* A completed, uncancelled run of two items whose first item ended in an
\* exhausted failure and whose second item was still attempted.
C7_Witness ==
    \E p \in Procs :
        LET pr == processors[p] IN
        /\ pr.pc = "done" /\ ~pr.cancelled
        /\ Len(pr.records) = 2
        /\ Len(pr.logger.failedRecords) >= 1
        /\ pr.logger.failedRecords[1].identifier = 1
        /\ Retryable(pr.logger.failedRecords[1].status)
        /\ 2 \in pr.attempted

RECURSIVE ExpectedWait(_, _)
ExpectedWait(retry, k) ==
    IF k = 1 THEN retry.initialDelayMs
    ELSE RMul(ExpectedWait(retry, k - 1), retry.backoffMultiplier)

\* C10: the wait after failed attempt k (k < maxAttempts) of an item is exactly
\* initialDelayMs * backoffMultiplier^(k-1), counted from k = 1 for every item;
\* with initialDelayMs 1000 and multiplier 2 two retries wait 1000 then 2000.
C10_RetryWaits ==
    \A p \in Procs :
        LET pr == processors[p] IN
        /\ \A k \in 1..Len(pr.retrySleeps) :
              /\ k < pr.retry.maxAttempts
              /\ pr.retrySleeps[k] = ExpectedWait(pr.retry, k)
        /\ pr.pc = "retryWait" =>
              /\ Len(pr.retrySleeps) = pr.attempt
              /\ pr.sleeping = pr.retrySleeps[pr.attempt]
        /\ (pr.retry.initialDelayMs = Num(1000) /\ pr.retry.backoffMultiplier = Num(2)
                /\ Len(pr.retrySleeps) = 2)
              => pr.retrySleeps = <<Num(1000), Num(2000)>>

\* The second item waits 1000 then 2000 after the first item used up its
\* own retries.
C10_Witness ==
    \E p \in Procs :
        LET pr == processors[p] IN
        /\ pr.i = 1
        /\ pr.successCount + pr.failureCount = 1
        /\ Len(pr.logger.failedRecords) = 1
        /\ Retryable(pr.logger.failedRecords[1].status)
        /\ pr.retry.maxAttempts = 3
        /\ pr.pc = "retryWait"
        /\ pr.retrySleeps = <<Num(1000), Num(2000)>>

\* The item the run reached last: the number of progress events emitted.
ItemsBegun(ev) == Cardinality({j \in 1..Len(ev) : ev[j].type = "progress"})
Count(seq, Test(_)) == Cardinality({j \in 1..Len(seq) : Test(seq[j])})
IsRateLimitEvent(e) == e.type = "rateLimit"
IsOnRateLimit(c) == c.call = "onRateLimit"

\* C11: a rateLimit event is emitted and onRateLimit() invoked for an item
\* exactly when the item's final outcome is a Failure with status 429: the
\* rateLimit event directly follows that failure event, no other outcome is
\* followed by one, and an item whose 429 was resolved by a successful retry
\* gets onSuccess() and no rateLimit event.
C11_RateLimitIffExhausted429 ==
    \A p \in Procs :
        LET pr == processors[p]
            ev == pr.events
            lc == pr.limiterCalls
        IN  /\ \A j \in 1..Len(ev) :
                  /\ ev[j].type = "rateLimit" =>
                        j > 1 /\ ev[j - 1].type = "failure" /\ ev[j - 1].status = 429
                  /\ (ev[j].type = "failure" /\ ev[j].status = 429) =>
                        j < Len(ev) /\ ev[j + 1].type = "rateLimit"
            /\ \A k \in 1..Len(lc) :
                  /\ lc[k].call = "onRateLimit" <=>
                        \E j \in 1..Len(ev) : /\ ev[j].type = "failure"
                                               /\ ev[j].current = lc[k].item
                                               /\ ev[j].status = 429
                  /\ lc[k].call = "onSuccess" <=>
                        \E j \in 1..Len(ev) : /\ ev[j].type = "success"
                                               /\ ev[j].current = lc[k].item
                  /\ \A m \in 1..Len(lc) : lc[m].item = lc[k].item => m = k
            /\ Count(lc, IsOnRateLimit) = Count(ev, IsRateLimitEvent)
            /\ (/\ Returned(pr) /\ pr.pc # "rejected"
                /\ pr.result.success
                /\ \E k \in 1..Len(pr.errors) : pr.errors[k].status = 429)
                  => /\ Len(lc) > 0
                     /\ lc[Len(lc)] = [item |-> ItemsBegun(ev), call |-> "onSuccess"]
                     /\ \A j \in 1..Len(ev) :
                           ev[j].type = "rateLimit" => ev[j - 1].current < ItemsBegun(ev)

\* The first item ended in an exhausted 429 and raised the delay; the second
\* item met a 429, succeeded on its retry and counted as a success.
C11_Witness ==
    \E p \in Procs :
        LET pr == processors[p] IN
        /\ pr.pc = "done"
        /\ pr.result.success
        /\ pr.errors = <<RemoteError(429)>>
        /\ pr.limiterCalls = <<[item |-> 1, call |-> "onRateLimit"],
                               [item |-> 2, call |-> "onSuccess"]>>
        /\ Count(pr.events, IsRateLimitEvent) = 1

ItemsBegunBefore(ev, c) == Cardinality({j \in 1..(c - 1) : ev[j].type = "progress"})
IsOutcome(e) == e.type \in {"success", "failure"}
\* Event c of ev is the cancelled event of a cancel() call made while the
\* remote call or a retry wait of an item was in flight.
CancelDuringItem(ev, c) ==
    /\ ev[c].type = "cancelled"
    /\ "cancelled" \notin TypesBefore(ev, c)
    /\ ItemsBegunBefore(ev, c) >= 1
    /\ \A j \in 1..(c - 1) : IsOutcome(ev[j]) => ev[j].current < ItemsBegunBefore(ev, c)

\* C12: after cancel() was called while item i was being processed or in the
\* wait after it, no remote call is issued and no progress, success, failure
\* or rateLimit event is emitted for an item with index greater than i.
C12_NothingAfterCancelledItem ==
    \A p \in Procs :
        LET pr == processors[p]
            ev == pr.events
        IN  \A c \in 1..Len(ev) :
                ev[c].type = "cancelled" =>
                    LET i == ItemsBegunBefore(ev, c) IN
                    /\ \A j \in (c + 1)..Len(ev) :
                          /\ ev[j].type \in {"progress", "success", "failure"}
                                => ev[j].current <= i
                          /\ ev[j].type = "rateLimit" => ev[j - 1].current <= i
                    /\ pr.attempted \subseteq 1..i
                    /\ pr.pc \in {"call", "retryWait"} => pr.i + 1 <= i

\* cancel() was called while the first of two items was in flight; the run
\* finished that item and ended without touching the second.
C12_Witness ==
    \E p \in Procs :
        LET pr == processors[p]
            ev == pr.events
        IN  /\ pr.pc = "done"
            /\ Len(pr.records) = 2
            /\ Len(ev) >= 4
            /\ CancelDuringItem(ev, 3)
            /\ IsOutcome(ev[4]) /\ ev[4].current = 1
            /\ pr.attempted = {1}
            /\ ev[Len(ev)].type = "complete"

\* C13: cancel() called while item i's remote call or retry wait is in flight
\* does not interrupt it: the item goes on through its retries as the retry
\* policy says, its outcome is logged, counted and emitted once, and the
\* cancellation is acted on (the "cancelled by user" line) only afterwards.
C13_CancelDoesNotInterruptItem ==
    \A p \in Procs :
        LET pr == processors[p]
            ev == pr.events
            written == pr.logger.log
        IN  \A c \in 1..Len(ev) :
                CancelDuringItem(ev, c) =>
                    LET i == ItemsBegunBefore(ev, c)
                        outs == {j \in 1..Len(ev) : IsOutcome(ev[j]) /\ ev[j].current = i}
                        lines == {k \in 1..Len(written) :
                                     written[k].tag \in {"SUCCESS", "FAILED"} /\ written[k].n = i}
                    IN  \/ pr.pc \in {"call", "retryWait"} /\ pr.i + 1 = i /\ outs = {}
                        \/ pr.pc = "rejected"
                        \/ /\ pr.pc \in {"rateWait", "done"}
                           /\ Cardinality(outs) = 1 /\ \A j \in outs : j > c
                           /\ \A j \in outs : (ev[j].type = "success") = pr.result.success
                           /\ pr.successCount + pr.failureCount = i
                           /\ Cardinality(lines) = 1
                           /\ \A k \in 1..Len(written) :
                                 written[k].tag = "cancelled by user" => \A m \in lines : m < k
                           /\ Len(pr.retrySleeps) = pr.remoteCalls - 1
                           /\ Len(pr.errors) = pr.remoteCalls - (IF pr.result.success THEN 1 ELSE 0)
                           /\ \A k \in 1..(pr.remoteCalls - 1) :
                                 Retryable(EffectiveStatus(pr.errors[k]))
                           /\ ~pr.result.success =>
                                 /\ pr.result.attempt = pr.remoteCalls
                                 /\ \/ pr.remoteCalls = pr.retry.maxAttempts
                                    \/ ~Retryable(pr.result.status)

\* cancel() arrived during the first item's first call; the item was still
\* retried twice, succeeded on its third call, and only then was the run
\* stopped before the second item.
C13_Witness ==
    \E p \in Procs :
        LET pr == processors[p]
            ev == pr.events
        IN  /\ pr.pc = "done"
            /\ Len(pr.records) = 2
            /\ Len(ev) >= 4
            /\ CancelDuringItem(ev, 3)
            /\ pr.remoteCalls = 3 /\ Len(pr.retrySleeps) = 2
            /\ pr.result.success
            /\ ev[4].type = "success" /\ ev[4].current = 1
            /\ pr.successCount = 1
            /\ \E k \in 1..Len(pr.logger.log) : pr.logger.log[k].tag = "cancelled by user"

\* The events of ev that belong to items, in order.
ItemEvents(ev) == SelectSeq(ev, LAMBDA e : e.type \in {"progress", "success", "failure"})

\* C14: the items of a run are processed in input order, one at a time: the
\* progress and outcome events alternate with current = 1, 1, 2, 2, ..., each
\* outcome names the row of its index, a call for item k+1 is outstanding
\* only when the outcomes of items 1..k have been produced, and the run never
\* has more than one remote call outstanding.
C14_SequentialInOrder ==
    \A p \in Procs :
        LET pr == processors[p]
            ie == ItemEvents(pr.events)
        IN  /\ pr.outstanding <= 1
            /\ (pr.outstanding = 1) = (pr.pc = "call")
            /\ \A j \in 1..Len(ie) :
                  /\ ie[j].current = (j + 1) \div 2
                  /\ (j % 2 = 1) = (ie[j].type = "progress")
                  /\ IsOutcome(ie[j]) => ie[j].identifier = pr.records[ie[j].current]
            /\ \E k \in 0..Len(pr.records) : pr.attempted = 1..k
            /\ pr.pc \in {"call", "retryWait"} =>
                  /\ Len(ie) = 2 * pr.i + 1
                  /\ pr.attempted = 1..(pr.i + 1)
                  /\ Count(pr.events, IsOutcome) = pr.i

\* The second item's retry is in flight after the first item went through
\* all three of its tries and failed.
C14_Witness ==
    \E p \in Procs :
        LET pr == processors[p] IN
        /\ pr.pc = "call" /\ pr.i = 1 /\ pr.attempt = 2
        /\ pr.outstanding = 1
        /\ pr.retry.maxAttempts = 3
        /\ Len(pr.logger.failedRecords) = 1
        /\ Retryable(pr.logger.failedRecords[1].status)
        /\ pr.attempted = {1, 2}

Aborted(pr) == pr.pc \in {"rejected", "aborted"}
\* The messages written to a client by the step, if it only added some.
Added(old, new) == SubSeq(new, Len(old) + 1, Len(new))
EventNames(msgs) == {msgs[k].event : k \in 1..Len(msgs)}

\* C15: when a step of a run throws (an audit-log write fails), start()
\* rejects: in that step the job status becomes 'error' and every client
\* whose stream works is sent, last, an error event with the message and no
\* complete event; the rejected run has emitted no complete event, has no
\* call outstanding and never does anything again.
C15_EngineExceptionAborts ==
    [][/\ \A p \in 1..Len(processors') :
             (/\ Aborted(processors'[p])
              /\ (p > Len(processors) \/ ~Aborted(processors[p])))
                => /\ currentJob'.status = "error"
                   /\ processors'[p].pc = "rejected" =>
                         /\ \A j \in 1..Len(processors'[p].events) :
                               processors'[p].events[j].type # "complete"
                         /\ processors'[p].outstanding = 0
                   /\ Len(currentJob'.sseClients) = Len(currentJob.sseClients)
                   /\ \A c \in DOMAIN currentJob.sseClients :
                         LET old == currentJob.sseClients[c].received
                             new == currentJob'.sseClients[c].received
                         IN  ~currentJob.sseClients[c].broken =>
                                 /\ Len(new) > Len(old)
                                 /\ SubSeq(new, 1, Len(old)) = old
                                 /\ new[Len(new)] = [event |-> "error",
                                                     data |-> [message |-> WriteError]]
                                 /\ "complete" \notin EventNames(Added(old, new))
       /\ \A p \in Procs :
             processors[p].pc = "rejected" =>
                 \/ processors'[p] = processors[p]
                 \/ processors'[p] = Collected("rejected")]_vars

\* A run was aborted after its first item had succeeded; the status is
\* 'error' and a client that watched from the start was told so last.
C15_Witness ==
    \E p \in Procs, c \in DOMAIN currentJob.sseClients :
        LET pr == processors[p]
            got == currentJob.sseClients[c].received
        IN  /\ pr.pc = "rejected"
            /\ pr.successCount >= 1
            /\ Len(pr.records) = 2
            /\ currentJob.status = "error"
            /\ Len(got) >= 3
            /\ got[2].event = "start"
            /\ got[Len(got)].event = "error"
            /\ "success" \in EventNames(got)

\* C16: once start() has been called no item fails, and no retry is made,
\* because of invalid input or configuration: deleteCustomer never throws one
\* of its validation errors during a run.
C16_NoValidationFailureMidRun ==
    \A p \in Procs :
        LET pr == processors[p] IN
        /\ \A k \in 1..Len(pr.errors) :
              pr.errors[k] \notin {MissingKeyError, MissingIdentifierError}
        /\ \A k \in 1..Len(pr.logger.failedRecords) :
              pr.logger.failedRecords[k].error
                  \notin {MissingKeyError.message, MissingIdentifierError.message}

CountBefore(ev, j, type) == Cardinality({k \in 1..(j - 1) : ev[k].type = type})

\* C17: the complete event carries as successCount the number of items that
\* ended in success and as failureCount the number that ended in failure,
\* which are the items processed before any cancellation; when every item
\* succeeded, successCount is the item count, failureCount is 0 and no
\* rateLimit event was emitted.
C17_CountsAreOutcomes ==
    \A p \in Procs :
        LET pr == processors[p]
            ev == pr.events
        IN  \A j \in 1..Len(ev) :
                ev[j].type = "complete" =>
                    /\ ev[j].successCount = CountBefore(ev, j, "success")
                    /\ ev[j].failureCount = CountBefore(ev, j, "failure")
                    /\ ev[j].failureCount = Len(pr.logger.failedRecords)
                    /\ ev[j].successCount + ev[j].failureCount = Cardinality(pr.attempted)
                    /\ CountBefore(ev, j, "success") = Len(pr.records) =>
                          /\ ev[j].successCount = Len(pr.records)
                          /\ ev[j].failureCount = 0
                          /\ \A k \in 1..Len(ev) : ev[k].type # "rateLimit"

\* A run of two items was cancelled during the wait after the first, which
\* had succeeded: complete reports one success and no failure.
C17_Witness ==
    \E p \in Procs :
        LET pr == processors[p]
            ev == pr.events
        IN  /\ pr.pc = "done" /\ pr.cancelled
            /\ Len(pr.records) = 2
            /\ Len(ev) >= 4
            /\ ev[3].type = "success"
            /\ CancelledAfterItem(ev, 4)
            /\ ev[Len(ev)].type = "complete"
            /\ ev[Len(ev)].successCount = 1 /\ ev[Len(ev)].failureCount = 0

\* The lines of a text: the runs between its line breaks.
RECURSIVE SplitLines(_)
SplitLines(text) ==
    IF \A k \in 1..Len(text) : text[k] # NewLine THEN <<text>>
    ELSE LET n == CHOOSE k \in 1..Len(text) :
                      text[k] = NewLine /\ \A j \in 1..(k - 1) : text[j] # NewLine
         IN  <<SubSeq(text, 1, n - 1)>> \o SplitLines(SubSeq(text, n + 1, Len(text)))

\* C18: saveFailedRecords on an empty collection writes no file and returns
\* no path; on f >= 1 records of any values it writes f + 1 lines, the
\* header columnName,error,status and then one line per record in recording
\* order, and returns the path.
C18_FailedRecordsCsv ==
    LET records == lg.logger.failedRecords
        f == Len(records)
        lines == SplitLines(lg.logger.csv)
    IN  (lg.saved /\ lg.returned # "thrown") =>
            IF f = 0
            THEN lg.logger.csv = <<>> /\ lg.returned = "null"
            ELSE /\ lg.returned = "failedRecordsFile"
                 /\ Len(lines) = f + 1
                 /\ lines[1] = ColumnName \o <<Comma, "error", Comma, "status">>
                 /\ \A k \in 1..f : lines[k + 1] = CsvRow(records[k])

IsSuffix(a, b) == Len(a) <= Len(b) /\ a = SubSeq(b, Len(b) - Len(a) + 1, Len(b))
IsPrefix(a, b) == Len(a) <= Len(b) /\ a = SubSeq(b, 1, Len(a))
\* The messages the run of processor pr gives rise to, in order.
MessagesOf(pr) ==
    [k \in 1..Len(pr.events) |-> [event |-> pr.events[k].type, data |-> Payload(pr.events[k])]]
        \o (IF pr.pc = "rejected"
            THEN << [event |-> "error", data |-> [message |-> WriteError]] >>
            ELSE <<>>)
SubscribedWhileIdle(client) == client.received[1].data.status = "idle"

\* C19: the observers of a run receive the same events in the same order: a
\* client connected since before the run has received, after its connected
\* message, exactly the run's events in the order of emission; of two
\* clients whose streams work the later one has received the tail of what
\* the earlier one has; a client whose writes throw has only lost messages
\* itself.
C19_FanOut ==
    LET clients == currentJob.sseClients IN
    /\ \A c \in DOMAIN clients, d \in DOMAIN clients :
          (c < d /\ ~clients[c].broken /\ ~clients[d].broken)
              => IsSuffix(Tail(clients[d].received), Tail(clients[c].received))
    /\ Len(processors) = 1 =>
          \A c \in DOMAIN clients :
              SubscribedWhileIdle(clients[c]) =>
                  IF clients[c].broken
                  THEN IsPrefix(Tail(clients[c].received), MessagesOf(processors[1]))
                  ELSE Tail(clients[c].received) = MessagesOf(processors[1])

\* Two clients watched a run of two items from before its start; the stream
\* of the first broke during the run, and the second still received every
\* event up to complete.
C19_Witness ==
    /\ Len(processors) = 1
    /\ processors[1].pc = "done"
    /\ Len(processors[1].records) = 2
    /\ Len(currentJob.sseClients) = 2
    /\ LET a == currentJob.sseClients[1]
           b == currentJob.sseClients[2]
       IN  /\ SubscribedWhileIdle(a) /\ SubscribedWhileIdle(b)
           /\ a.broken /\ ~b.broken
           /\ Len(a.received) >= 3
           /\ Len(a.received) < Len(b.received)
           /\ b.received[Len(b.received)].event = "complete"

\* The events of the protocol: all but the cancelled notifications.
ProtocolEvents(ev) == SelectSeq(ev, LAMBDA e : e.type # "cancelled")
FinalLines == <<"completed", "Total Processed", "Successful", "Failed", "Duration">>

\* C20: the events of a run follow the protocol: one start{total} first; per
\* item k = 1, 2, ... one progress{current: k, total}, then one success or
\* failure of that item, a failure possibly followed by one rateLimit; one
\* complete at most, after which nothing follows, emitted when the failed
\* records have been written and the five final audit lines are in the log;
\* a run that is not cancelled and ends has processed every item and its
\* last event is complete.
C20_EventProtocol ==
    \A p \in Procs :
        LET pr == processors[p]
            n == Len(pr.records)
            pe == ProtocolEvents(pr.events)
            written == pr.logger.log
        IN  /\ pr.pc \notin {"new", "collected", "aborted"} /\ (pr.pc = "rejected" => Len(pe) > 0)
                  => Len(pe) >= 1 /\ pe[1] = [type |-> "start", total |-> n]
            /\ \A j \in 2..Len(pe) :
                  CASE pe[j].type = "progress" ->
                          /\ pe[j].current = CountBefore(pe, j, "progress") + 1
                          /\ pe[j].total = n
                          /\ IF pe[j].current = 1 THEN j = 2
                             ELSE \/ IsOutcome(pe[j - 1]) /\ pe[j - 1].current = pe[j].current - 1
                                  \/ pe[j - 1].type = "rateLimit"
                    [] IsOutcome(pe[j]) ->
                          /\ pe[j - 1].type = "progress"
                          /\ pe[j - 1].current = pe[j].current
                          /\ pe[j].total = n
                    [] pe[j].type = "rateLimit" -> pe[j - 1].type = "failure"
                    [] pe[j].type = "complete" ->
                          /\ j = Len(pe)
                          /\ pe[j - 1].type # "progress"
                          /\ Len(written) >= 5
                          /\ [k \in 1..5 |-> written[Len(written) - 5 + k].tag] = FinalLines
                          /\ Len(pr.logger.failedRecords) > 0 =>
                                /\ pr.logger.csv # <<>>
                                /\ pe[j].failedRecordsFile # Null
                    [] OTHER -> FALSE
            /\ (pr.pc = "done" /\ ~pr.cancelled) =>
                  /\ pe = pr.events
                  /\ pe[Len(pe)].type = "complete"
                  /\ CountBefore(pe, Len(pe), "progress") = n
                  /\ CountBefore(pe, Len(pe), "success") + CountBefore(pe, Len(pe), "failure") = n

\* A run of two items ended normally: the first item failed with 429, the
\* second succeeded.
C20_Witness ==
    \E p \in Procs :
        LET pr == processors[p]
            ev == pr.events
        IN  /\ pr.pc = "done" /\ ~pr.cancelled
            /\ Len(ev) = 7
            /\ [k \in 1..7 |-> ev[k].type] =
                  <<"start", "progress", "failure", "rateLimit", "progress", "success", "complete">>
            /\ pr.logger.csv # <<>>

\* C21: POST /api/start-batch received while the job status is 'running' is
\* answered 409 and changes nothing: the job (processor, status, file path,
\* subscribers), the processors and their calls, the uploads, the timers and
\* the environment are what they were, whatever the request holds.
C21_RunningRejects ==
    currentJob.status = "running" =>
        \A f \in 1..MaxFiles, region \in {"us", "eu"}, throws \in BOOLEAN, b \in ServerBudgets :
            LET r == startBatch(W(b), f, region, throws) IN
            /\ r.response = 409
            /\ r.currentJob = currentJob
            /\ r.processors = processors
            /\ r.uploads = uploads
            /\ r.timers = timers
            /\ r.env = env

\* A job is running with a remote call in flight while a second uploaded
\* file is there to be started.
C21_Witness ==
    /\ currentJob.status = "running"
    /\ currentJob.processor # Null
    /\ processors[currentJob.processor].pc = "call"
    /\ \E f \in DOMAIN uploads : f # currentJob.filePath
    /\ Len(processors) < MaxRuns

\* C22: a BatchProcessor instance runs at most once: whatever is called on
\* it, also start() after its run has ended, no item is processed again.
C22_RunsOnce ==
    \A p \in Procs :
        LET ev == processors[p].events IN
        \A k \in 1..Len(processors[p].records) :
            Cardinality({j \in 1..Len(ev) : ev[j].type = "progress" /\ ev[j].current = k}) <= 1

\* C23: in a run of n >= 1 items that is not cancelled, rateLimiter.wait() is
\* called n - 1 times, once after each item but the last, and each wait
\* sleeps for the delay as the outcome of the item before it left it: after
\* an exhausted 429 that is the newDelay of the rateLimit event.
C23_WaitsBetweenItems ==
    \A p \in Procs :
        LET pr == processors[p]
            n == Len(pr.records)
            ev == pr.events
        IN  /\ \A k \in 1..Len(pr.waits) :
                  /\ pr.waits[k].after = k
                  /\ k < n
                  /\ \E j \in 1..Len(ev) : IsOutcome(ev[j]) /\ ev[j].current = k
                  /\ \A j \in 1..Len(ev) :
                        (ev[j].type = "rateLimit" /\ ev[j - 1].current = k)
                            => pr.waits[k].delay = ev[j].newDelay
            /\ pr.pc = "rateWait" =>
                  /\ Len(pr.waits) = pr.i + 1
                  /\ pr.sleeping = pr.waits[pr.i + 1].delay
                  /\ pr.sleeping = pr.rateLimiter.currentDelay
            /\ (pr.pc = "done" /\ ~pr.cancelled /\ n >= 1) => Len(pr.waits) = n - 1

\* A run of two items ended; its one wait came after the first item, whose
\* exhausted 429 had raised the delay from 100 to 150.
C23_Witness ==
    \E p \in Procs :
        LET pr == processors[p] IN
        /\ pr.pc = "done" /\ ~pr.cancelled
        /\ Len(pr.records) = 2
        /\ pr.waits = <<[after |-> 1, delay |-> Num(150)]>>
        /\ Cardinality(pr.attempted) = 2

\* C24: the consecutive-success counter never exceeds the threshold of 10: the
\* onSuccess() call that brings it to 10 resets it to 0.
C24_CounterAtMostThreshold ==
    rl.consecutiveSuccesses < SuccessThreshold

\* C25: with a valid rate configuration (base <= max, multiplier >= 1) the
\* delay is lowered only by an item that ends a run of ten successes, no
\* failed item of any status among the ten most recent, and an item that ends
\* in an exhausted 429 raises the delay at once, up to the cap.
ValidRateConfig(r) == RLeq(r.baseDelay, r.maxDelay) /\ RLeq(Num(1), r.backoffMultiplier)

C25_LoweredOnlyAfterTenSuccesses ==
    [][ValidRateConfig(rl) =>
          /\ RLess(rl'.currentDelay, rl.currentDelay) => items'.successes >= SuccessThreshold
          /\ (~items'.last.success /\ items'.last.status = RateLimitStatus) =>
                rl'.currentDelay = RMin(rl.maxDelay, RMul(rl.currentDelay, rl.backoffMultiplier))
       ]_vars

\* C26: an error of the remote call that carries no status is handled as
\* status 500: below maxAttempts a retry sleep follows it; at maxAttempts the
\* item ends as a Failure with status 500 and the message of the error, which
\* is counted and emitted as the failure of that item, and the run goes on
\* (it is rejected only by a file write that throws after the count).
LastOutcome(ev) ==
    LET out == {j \in 1..Len(ev) : IsOutcome(ev[j])} IN
    IF out = {} THEN 0 ELSE CHOOSE j \in out : \A m \in out : m <= j

StatuslessHandled(pr) ==
    \A k \in 1..Len(pr.errors) :
        pr.errors[k].status = 0 =>
            /\ k < pr.retry.maxAttempts => Len(pr.retrySleeps) >= k
            /\ k >= pr.retry.maxAttempts =>
                  /\ k = pr.retry.maxAttempts /\ k = Len(pr.errors)
                  /\ pr.remoteCalls = k
                  /\ pr.pc \in {"rateWait", "done", "rejected"}
                  /\ pr.result = [success |-> FALSE, error |-> pr.errors[k].message,
                                  status |-> 500, attempt |-> k]
                  /\ pr.failureCount >= 1
                  /\ pr.pc # "rejected" =>
                        LET j == LastOutcome(pr.events) IN
                        /\ j > 0
                        /\ pr.events[j].type = "failure"
                        /\ pr.events[j].status = 500
                        /\ pr.events[j].error = pr.errors[k].message

C26_StatuslessErrorIs500 ==
    [][\A p \in Procs :
          /\ StatuslessHandled(processors'[p])
          /\ (/\ processors[p].pc = "call"
              /\ processors'[p].pc = "rejected"
              /\ Len(processors'[p].errors) > 0
              /\ processors'[p].errors[Len(processors'[p].errors)].status = 0)
                => processors'[p].successCount + processors'[p].failureCount
                       = processors[p].successCount + processors[p].failureCount + 1
      ]_vars

\* With a key configured, three tries of the first of two items failed
\* without a status; two retry sleeps lay between them, the item ended as a
\* Failure with status 500 and the run waits before the second item.
C26_Witness ==
    \E p \in Procs :
        LET pr == processors[p] IN
        /\ CONFIG.userApiKey # Null
        /\ pr.retry.maxAttempts = 3
        /\ Len(pr.errors) = 3
        /\ \A k \in 1..3 : pr.errors[k] = RemoteError(0)
        /\ Len(pr.retrySleeps) = 2
        /\ pr.pc = "rateWait"
        /\ pr.result.status = 500 /\ pr.result.attempt = 3
        /\ pr.failureCount = 1

\* C27: any two Logger instances of a process have different log-file paths
\* and different failed-records paths, however close in time they were
\* constructed.
C27_UniquePaths ==
    \A j, k \in 1..Len(loggers) :
        j # k => /\ loggers[j].logFile # loggers[k].logFile
                 /\ loggers[j].failedRecordsFile # loggers[k].failedRecordsFile

\* C28: a log() call appends exactly one line to the log file and leaves
\* what the file held before unchanged.
C28_LogAppendsOneLine ==
    [][\A k \in 1..Len(loggers) :
          LET old == TextAt(files, loggers[k].logFile)
              new == TextAt(files', loggers[k].logFile)
          IN  new # old => IsPrefix(old, new) /\ Lines(new) = Lines(old) + 1
      ]_vars

\* C29: once a run is cancelled, cancel() called again while the item is in
\* flight changes nothing but the events emitted: every other field of the
\* processor, the job and the environment stay as they are.  A run cancelled
\* during item k, by one call or by more, ends fulfilled with exactly the
\* items 1..k processed, and its complete event counts the successes and
\* failures of those k items.
FirstCancelled(ev) ==
    LET c == {j \in 1..Len(ev) : ev[j].type = "cancelled"} IN
    IF c = {} THEN 0 ELSE CHOOSE j \in c : \A m \in c : j <= m

C29_CancelIdempotent ==
    \A p \in Procs :
        LET pr == processors[p]
            ev == pr.events
            c == FirstCancelled(ev)
            k == Cardinality({j \in 1..c : ev[j].type = "progress"})
            during == /\ c > 0 /\ k > 0
                      /\ Cardinality({j \in 1..c : IsOutcome(ev[j])}) = k - 1
            again == cancel(W(0), p)
        IN  /\ (pr.cancelled /\ pr.pc \in {"call", "retryWait"}) =>
                  /\ [again.processors[p] EXCEPT !.events = ev,
                                                !.cancelCalls = pr.cancelCalls] = pr
                  /\ again.currentJob = currentJob
                  /\ again.env = env
            /\ (during /\ pr.pc = "done") =>
                  /\ Cardinality({j \in 1..Len(ev) : ev[j].type = "progress"}) = k
                  /\ {ev[j].current : j \in {m \in 1..Len(ev) : IsOutcome(ev[m])}} = 1..k
                  /\ Count(ev, LAMBDA e : e.type = "complete") = 1
                  /\ \A j \in 1..Len(ev) :
                        ev[j].type = "complete" =>
                            /\ ev[j].successCount = Count(ev, LAMBDA e : e.type = "success")
                            /\ ev[j].failureCount = Count(ev, LAMBDA e : e.type = "failure")
                            /\ ev[j].successCount + ev[j].failureCount = k

\* cancel() was called twice while the first of two items was in flight; the
\* run has ended with that one item processed.
C29_Witness ==
    \E p \in Procs :
        LET pr == processors[p] IN
        /\ pr.pc = "done"
        /\ Len(pr.records) = 2
        /\ pr.cancelCalls = 2
        /\ FirstCancelled(pr.events) = 3
        /\ pr.events[4].type = "cancelled"
        /\ IsOutcome(pr.events[5])
        /\ pr.successCount + pr.failureCount = 1

\* server.js: while the job's processor is cancelled with an item in flight
\* the job status is not 'running', so DELETE /api/cancel is answered 400.
CancelledJobNotRunning ==
    (/\ currentJob.processor # Null
     /\ processors[currentJob.processor].cancelled
     /\ processors[currentJob.processor].pc \in {"call", "retryWait"})
        => currentJob.status # "running"

\* C30: with a rate configuration whose baseDelayMs is above its maxDelayMs,
\* every delay rateLimiter.wait() sleeps is at most maxDelayMs.
C30_WaitWithinMax ==
    \A p \in Procs :
        LET pr == processors[p] IN
        RLess(pr.rateLimiter.maxDelay, pr.rateLimiter.baseDelay) =>
            /\ \A k \in 1..Len(pr.waits) : RLeq(pr.waits[k].delay, pr.rateLimiter.maxDelay)
            /\ pr.pc = "rateWait" => RLeq(pr.sleeping, pr.rateLimiter.maxDelay)

\* C31: once the job has a terminal status and the program has nothing left
\* to do for it (no cleanup timer is pending and no processor is at work),
\* the file the job was started from is gone from the uploads directory.
C31_UploadDeletedAtRest ==
    (/\ currentJob.status \in {"completed", "cancelled", "error"}
     /\ currentJob.jobFile # Null
     /\ timers = 0
     /\ \A p \in Procs : ~InProgress(processors[p]))
        => currentJob.jobFile \notin DOMAIN uploads

\* C32: in every complete event failedRecordsFile is a path exactly when
\* failureCount > 0, and hasFailedRecords is true exactly when failureCount > 0.
C32_FailedFileIffFailures ==
    \A p \in Procs :
        LET ev == processors[p].events IN
        \A j \in 1..Len(ev) :
            ev[j].type = "complete" =>
                /\ (ev[j].failedRecordsFile # Null) <=> (ev[j].failureCount > 0)
                /\ ev[j].hasFailedRecords <=> (ev[j].failureCount > 0)

\* C33: while a run has not been aborted, the logger's failure collection
\* holds exactly one entry per failed item: its length is failureCount, and
\* every entry carries the status of a failure.
C33_FailureCollectionIsFailures ==
    \A p \in Procs :
        LET pr == processors[p] IN
        pr.pc \in {"call", "retryWait", "rateWait", "done"} =>
            /\ Len(pr.logger.failedRecords) = pr.failureCount
            /\ \A k \in 1..Len(pr.logger.failedRecords) :
                  pr.logger.failedRecords[k].status >= 400

\* C34: a run on which cancel() was called exactly once emits exactly one
\* cancelled event by the time it has ended, wherever the call arrived.
C34_OneCancelledEvent ==
    \A p \in Procs :
        LET pr == processors[p] IN
        (pr.pc = "done" /\ pr.cancelCalls = 1 /\ pr.starts = 1)
            => Count(pr.events, LAMBDA e : e.type = "cancelled") = 1

\* C35: every request sent for a run authenticates with the apiKey of the
\* processor's config and goes to the host of its region.
C35_RequestsUseConfig ==
    \A p \in Procs :
        LET pr == processors[p] IN
        \A q \in pr.requests :
            /\ pr.apiKey # Null => q.authorization = pr.apiKey
            /\ q.baseUrl = getBaseUrl(pr.region)

\* C36: whenever no deleteWithRetry call of the run is pending (between two
\* items and after the run), process.env.BLUESHIFT_USER_API_KEY is what it
\* was before the run's first call: the value the process was started with,
\* or unset.
C36_EnvKeyRestored ==
    \A p \in Procs :
        processors[p].pc \in {"rateWait", "done"}
            => env.BLUESHIFT_USER_API_KEY = CONFIG.userApiKey

\* C37: when the cleanup timer of a complete event fires, the only file it
\* can remove from the uploads directory is the one the job was started from.
C37_CleanupRemovesJobFile ==
    [][timers' = timers - 1 =>
          \A f \in (DOMAIN uploads) \ (DOMAIN uploads') : f = currentJob.jobFile]_vars


\* C38: an observer that opens /api/progress only after the start-batch
\* response (its connected message reports the status running) and whose
\* stream works has received, once the run is over, the run's start event
\* and the progress event of item 1.
SubscribedWhileRunning(client) == client.received[1].data.status = "running"
HasMessage(client, event) == \E k \in DOMAIN client.received : client.received[k].event = event
C38_LateObserverSeesStart ==
    \A c \in DOMAIN currentJob.sseClients : LET client == currentJob.sseClients[c] IN
        (/\ SubscribedWhileRunning(client)
         /\ ~client.broken
         /\ currentJob.status \in {"completed", "cancelled", "error"})
            => /\ HasMessage(client, "start")
               /\ \E k \in DOMAIN client.received :
                     /\ client.received[k].event = "progress"
                     /\ client.received[k].data.current = 1


\* C39: with finitely many records, maxAttempts >= 1 and remote calls that
\* return, every run started by start() settles (complete is emitted or the
\* promise rejects), cancelled or not, and at no moment has it made more
\* than records.length * maxAttempts remote calls.
CallBound(pr) == Len(pr.records) * pr.retry.maxAttempts
C39_RunSettlesWithinCallBound ==
    /\ [](\A p \in Procs : processors[p].runCalls <= CallBound(processors[p]))
    /\ \A p \in {1} : (processors[p].starts = 1) ~> Settled(processors[p])
C39_Witness ==
    \E p \in Procs : LET pr == processors[p] IN
        /\ pr.pc = "done"
        /\ Len(pr.records) = 2
        /\ pr.retry.maxAttempts >= 2
        /\ pr.runCalls = CallBound(pr)
        /\ Count(pr.events, LAMBDA e : e.type = "complete") = 1


\* C40: on the same records, configuration and remote-call results, without
\* cancellation, the command-line engine and BatchProcessor.start() are at
\* the same point after every step: the same item and attempt, the same
\* requests and number of calls, the same retry waits and rate-limit waits
\* and delays, and the same success and failure counts.
EnginesAgreeOn(c, pr) ==
    /\ c.pc = pr.pc
    /\ c.i = pr.i
    /\ c.attempt = pr.attempt
    /\ c.runCalls = pr.runCalls
    /\ c.requests = pr.requests
    /\ c.retrySleeps = pr.retrySleeps
    /\ c.sleeping = pr.sleeping
    /\ c.waits = pr.waits
    /\ c.successCount = pr.successCount
    /\ c.failureCount = pr.failureCount
    /\ c.pc # "new" => c.rateLimiter = pr.rateLimiter
C40_EnginesAgree == EnginesAgreeOn(cli, processors[1])

====
